-------------------------- MODULE MoneyLocksProofs ---------------------------
(***************************************************************************)
(* Proofs about MoneyChain, for every set of rows, sessions and commands:  *)
(* that the row locks keep every chain of the ledger as it should be, that *)
(* nobody waits in a circle for them, and that the interleaved statements  *)
(* implement MoneyLedger.                                                  *)
(***************************************************************************)
EXTENDS MoneyChainProofs

(* The approvals a session has to hold: those of its cancellation and of   *)
(* its request, or the approval it acts on.                                *)
Chains(s) ==
  {p \in Approvals : \/ p = seen[s] /\ cmd[s].op \notin {"amend", "recalculate"}
                     \/ cmd[s].op = "link" /\ p = cmd[s].to
                     \/ cmd[s].op \notin Creates /\ p = cmd[s].id}

(* The row a session has inserted and not yet committed. *)
Late == {"match", "parents", "child", "body", "update"}
Own(s, i) == pc[s] \in Late /\ cmd[s].op \in Creates /\ i = cmd[s].id

(* Deleted rows do not come back, and a lock is of a transaction under way. *)
LockInv ==
  /\ \A i \in deleted : ~Present(db, i)
  /\ \A i \in Ids : lock[i] # Free => pc[lock[i]] \in Late

(* The rows a command names were there, and its own insert is its own.     *)
CommandInv(s) ==
  /\ cmd[s].op \in Creates => pc[s] # "observe"
  /\ cmd[s].op = "createApproval" => pc[s] \in {"idle", "insert", "update"}
  /\ cmd[s].op \notin Creates => pc[s] \notin {"insert", "match"}
  /\ pc[s] # "idle" /\ cmd[s].op \notin Creates =>
       Present(db, cmd[s].id) \/ cmd[s].id \in deleted
  /\ pc[s] # "idle" /\ cmd[s].to # None =>
       Present(db, cmd[s].to) \/ cmd[s].to \in deleted
  /\ \A i \in Ids : Own(s, i) =>
       /\ lock[i] = s /\ ~Present(db, i) /\ i \notin deleted /\ write[s][i] \in Row
       /\ pc[s] # "update" =>
            write[s][i] = NewCancellation(cmd[s].units, cmd[s].cur, cmd[s].at)
  /\ pc[s] # "update" => \A i \in Ids : write[s][i] # Keep => Own(s, i)

(* A session past its reads holds what it read, or that is gone for good.  *)
ReadInv(s) ==
  /\ pc[s] \in {"parents", "child", "body"} =>
       \A p \in Chains(s) : \/ p \in todo[s] /\ Present(db, p)
                            \/ lock[p] = s
                            \/ p \in deleted
  /\ pc[s] \in {"idle", "insert", "match", "child", "body"} => todo[s] = {}
  /\ pc[s] = "body" /\ cmd[s].id \in Cancellations =>
       lock[cmd[s].id] = s \/ cmd[s].id \in deleted

(* An approval as its chain in d says it should be.                        *)
Balanced(d, a) ==
  LET r == d[a]
      left == r.units - CancelledUnits(d, a)
  IN /\ left >= 0
     /\ r.amount = Krw(r.units, r.cur, r.day)
     /\ r.amount = r.cancelled + r.net /\ r.cancelled >= 0
     /\ r.net = IF left = 0 THEN 0 ELSE Krw(left, r.cur, r.day)
     /\ r.status \in IF Children(d, a) = {} THEN Flags \cup {"approved"}
                     ELSE IF left = 0 THEN {"cancelled"}
                     ELSE IF left < r.units THEN {"partially_cancelled"}
                     ELSE {"approved"}
Sound(d, a) ==
  \A c \in Children(d, a) :
    /\ Present(d, a) /\ House[a] = House[c]
    /\ d[c].cur = d[a].cur /\ d[c].day = d[a].day
    /\ d[c].amount = Krw(d[c].units, d[a].cur, d[a].day)
Good(d, a) ==
  /\ Present(d, a) => Balanced(d, a) /\ d[a].parent = None
  /\ Sound(d, a)
AllGood(d) == \A a \in Approvals : Good(d, a)

(* What a session is about to commit touches only what it has locked, or    *)
(* waits to lock under the lock of its approval; and it leaves the chains   *)
(* it has locked as they should be.                                        *)
WriteInv(s) ==
  pc[s] = "update" =>
    /\ \A i \in Ids : write[s][i] # Keep =>
         /\ Own(s, i) \/ (Present(db, i) /\ (i \in todo[s] \/ lock[i] = s))
         /\ i \in Approvals => lock[i] = s
         /\ i \in Cancellations /\ Present(db, i) =>
              lock[IF db[i].parent = None THEN i ELSE db[i].parent] = s
         /\ i \in Cancellations /\ write[s][i] \in Row /\ write[s][i].parent # None =>
              lock[write[s][i].parent] = s
    /\ \A i \in todo[s] : write[s][i] # Keep
    /\ \A a \in Approvals : lock[a] = s => Good(OwnView(s), a)

SessionInv(s) == CommandInv(s) /\ ReadInv(s) /\ WriteInv(s)
LedgerInv == AllGood(db) /\ LockInv /\ \A s \in Sessions : SessionInv(s)

-----------------------------------------------------------------------------
-----------------------------------------------------------------------------
(* What a plan makes of the chains of a ledger, locks aside.               *)
LEMMA ChildFacts ==
  ASSUME NEW d \in Database, NEW a, NEW c \in Children(d, a)
  PROVE  c \in Cancellations /\ c \in Ids /\ d[c] \in Row /\ d[c].parent = a
BY DEF Children, Present, Database, Ids

LEMMA SameUnits ==
  ASSUME NEW d, NEW e, NEW a, Children(e, a) = Children(d, a),
         \A c \in Children(d, a) : e[c].units = d[c].units
  PROVE  CancelledUnits(e, a) = CancelledUnits(d, a)
<1>1. [c \in Children(e, a) |-> e[c].units] = [c \in Children(d, a) |-> d[c].units]
  OBVIOUS
<1> QED
  BY <1>1 DEF CancelledUnits

(* A chain none of whose amounts changes stays good. *)
LEMMA GoodKept ==
  ASSUME NEW d, NEW e, NEW a, Good(d, a), e[a] = d[a], Children(e, a) = Children(d, a),
         \A c \in Children(d, a) : /\ e[c].units = d[c].units /\ e[c].cur = d[c].cur
                                   /\ e[c].day = d[c].day /\ e[c].amount = d[c].amount
  PROVE  Good(e, a)
<1>1. CancelledUnits(e, a) = CancelledUnits(d, a)
  BY SameUnits
<1>2. Present(e, a) = Present(d, a)
  BY DEF Present
<1>3. Present(e, a) => Balanced(e, a) /\ e[a].parent = None
  BY <1>1, <1>2 DEF Good, Balanced
<1>4. Sound(e, a)
  BY <1>2 DEF Good, Sound
<1> QED
  BY <1>3, <1>4 DEF Good

(* Rounding half up keeps the order, so the cancelled part is not negative. *)
LEMMA DivMonotone ==
  ASSUME NEW m \in Nat, NEW n \in Nat, m <= n, NEW q \in Nat \ {0}
  PROVE  m \div q <= n \div q
OBVIOUS

LEMMA TimesMonotone ==
  ASSUME NEW m \in Nat, NEW n \in Nat, m <= n, NEW q \in Nat
  PROVE  m * q <= n * q /\ m * q \in Nat /\ n * q \in Nat
OBVIOUS

LEMMA KrwMonotone ==
  ASSUME NEW m \in Nat, NEW n \in Nat, m <= n, NEW cur, NEW day \in Days
  PROVE  Krw(m, cur, day) <= Krw(n, cur, day)
<1>1. Rate[day] \in Nat /\ Div \in Nat \ {0}
  BY RateAssumption
<1>2. m * Rate[day] <= n * Rate[day] /\ m * Rate[day] \in Nat /\ n * Rate[day] \in Nat
  BY <1>1, TimesMonotone
<1>3. Div \div 2 \in Nat
  BY <1>1
<1> DEFINE x == m * Rate[day] + (Div \div 2)
           y == n * Rate[day] + (Div \div 2)
<1>4. x \in Nat /\ y \in Nat /\ x <= y
  BY <1>2, <1>3
<1> HIDE DEF x, y
<1>5. x \div Div <= y \div Div
  BY <1>1, <1>4, DivMonotone
<1> QED
  BY <1>5 DEF Krw, x, y

(* The columns planned for an approval balance the children they are for. *)
LEMMA PlannedGood ==
  ASSUME NEW d \in Database, NEW a \in Approvals, NEW units \in Units, NEW cur \in Currencies,
         NEW day \in Days, NEW at \in Days, NEW flag \in Flags \cup {NoFlag},
         PlanOk(d, a, units, cur, day),
         NEW e, e[a] = PlannedApproval(d, a, units, cur, day, at, flag),
         Children(e, a) = Children(d, a),
         \A c \in Children(d, a) :
           /\ House[a] = House[c] /\ e[c].units = d[c].units /\ e[c].cur = d[c].cur
           /\ e[c].day = day /\ e[c].amount = Krw(d[c].units, cur, day)
  PROVE  Good(e, a)
<1> DEFINE x == CancelledUnits(d, a)
           gross == Krw(units, cur, day)
           net == IF units = x THEN 0 ELSE Krw(units - x, cur, day)
           status == DerivedStatus(flag, Children(d, a), x, units - x)
<1>1. x \in 0 .. units /\ units \in Nat /\ units - x \in Nat /\ units - x <= units
  BY RateAssumption DEF PlanOk, Units
<1>2. gross \in Nat /\ net \in Nat /\ Krw(units - x, cur, day) <= gross
  <2>1. Krw(units - x, cur, day) <= gross
    BY <1>1, KrwMonotone
  <2> QED
    BY <2>1, RateAssumption DEF PlanOk, Convertible, Units
<1>3. net <= gross
  BY <1>2
<1>4. CancelledUnits(e, a) = x
  BY SameUnits
<1>5. /\ e[a] \in Row /\ e[a].units = units /\ e[a].cur = cur /\ e[a].day = day
      /\ e[a].amount = gross /\ e[a].cancelled = gross - net /\ e[a].net = net
      /\ e[a].parent = None /\ e[a].status = status
  <2>1. e[a] \in Row
    BY PlannedApprovalType
  <2> QED
    BY <2>1 DEF PlannedApproval
<1>6. Present(e, a)
  BY <1>5, RowAssumption DEF Present
<1>7. status \in IF Children(e, a) = {} THEN Flags \cup {"approved"}
                 ELSE IF units - x = 0 THEN {"cancelled"}
                 ELSE IF units - x < units THEN {"partially_cancelled"}
                 ELSE {"approved"}
  BY <1>1 DEF DerivedStatus, Flags, NoFlag
<1> HIDE DEF x, gross, net, status
<1>8. gross = (gross - net) + net /\ gross - net >= 0 /\ units - x >= 0
  BY <1>1, <1>2, <1>3
<1>9. net = IF units - x = 0 THEN 0 ELSE Krw(units - x, cur, day)
  BY <1>1 DEF net
<1>10. Balanced(e, a)
  BY <1>4, <1>5, <1>7, <1>8, <1>9 DEF Balanced, gross
<1>11. Sound(e, a)
  BY <1>5, <1>6 DEF Sound, PlanOk
<1> QED
  BY <1>5, <1>10, <1>11 DEF Good

(* writeChain links and unlinks nothing. *)
LEMMA WriteChainLinks ==
  ASSUME NEW d \in Database, NEW a \in Approvals, NEW units \in Units, NEW cur \in Currencies,
         NEW day \in Days, NEW at \in Days, NEW flag \in Flags \cup {NoFlag},
         NEW w \in BOOLEAN, PlanOk(d, a, units, cur, day)
  PROVE  LET e == WriteChain(d, a, units, cur, day, at, flag, w) IN
         /\ \A i \in Ids : i # a /\ i \notin Children(d, a) => e[i] = d[i]
         /\ \A c \in Cancellations : /\ Present(e, c) <=> Present(d, c)
                                     /\ Present(d, c) => e[c].parent = d[c].parent
         /\ \A b : Children(e, b) = Children(d, b)
<1> DEFINE e == WriteChain(d, a, units, cur, day, at, flag, w)
<1>1. \A i \in Ids : i # a /\ i \notin Children(d, a) => e[i] = d[i]
  BY DEF WriteChain
<1>2. ASSUME NEW c \in Cancellations
      PROVE  /\ Present(e, c) <=> Present(d, c)
             /\ Present(d, c) => e[c].parent = d[c].parent
  <2>1. c # a /\ c \in Ids
    BY ApprovalIsNone DEF Ids
  <2>2. CASE c \in Children(d, a) /\ w
    <3>1. e[c] = PlannedChild(d, c, cur, day)
      BY <2>1, <2>2 DEF WriteChain
    <3>2. d[c] \in Row /\ PlannedChild(d, c, cur, day) \in Row
      BY <2>1, <2>2, ChildFacts, PlannedChildType DEF PlanOk
    <3>3. PlannedChild(d, c, cur, day).parent = d[c].parent
      BY <3>2 DEF PlannedChild, Row
    <3> QED
      BY <3>1, <3>2, <3>3, RowAssumption DEF Present
  <2>3. CASE ~(c \in Children(d, a) /\ w)
    <3>1. e[c] = d[c]
      BY <2>1, <2>3 DEF WriteChain
    <3> QED
      BY <3>1 DEF Present
  <2> QED
    BY <2>2, <2>3
<1> HIDE DEF e
<1>3. \A b : Children(e, b) = Children(d, b)
  BY <1>2 DEF Children
<1> QED
  BY <1>1, <1>2, <1>3 DEF e

LEMMA WriteChainGood ==
  ASSUME NEW d \in Database, NEW a \in Approvals, NEW units \in Units, NEW cur \in Currencies,
         NEW day \in Days, NEW at \in Days, NEW flag \in Flags \cup {NoFlag},
         NEW w \in BOOLEAN, PlanOk(d, a, units, cur, day),
         \A c \in Children(d, a) : House[a] = House[c],
         \/ w
         \/ \A c \in Children(d, a) : d[c].day = day /\ d[c].amount = Krw(d[c].units, cur, day)
  PROVE  LET e == WriteChain(d, a, units, cur, day, at, flag, w) IN
         Good(e, a) /\ \A b \in Approvals \ {a} : Good(d, b) => Good(e, b)
<1> DEFINE e == WriteChain(d, a, units, cur, day, at, flag, w)
<1>1. /\ \A i \in Ids : i # a /\ i \notin Children(d, a) => e[i] = d[i]
      /\ \A b : Children(e, b) = Children(d, b)
  BY WriteChainLinks
<1>2. e[a] = PlannedApproval(d, a, units, cur, day, at, flag)
  BY ApprovalIsNone DEF WriteChain
<1>3. ASSUME NEW c \in Children(d, a)
      PROVE  /\ e[c].units = d[c].units /\ e[c].cur = d[c].cur
             /\ e[c].day = day /\ e[c].amount = Krw(d[c].units, cur, day)
  <2>1. c \in Ids /\ d[c] \in Row /\ c # a
    BY <1>3, ChildFacts, ApprovalIsNone
  <2>2. CASE w
    <3>1. e[c] = PlannedChild(d, c, cur, day)
      BY <1>3, <2>1, <2>2 DEF WriteChain
    <3> QED
      BY <2>1, <3>1 DEF PlannedChild, Row
  <2>3. CASE ~w
    <3>1. e[c] = d[c]
      BY <2>1, <2>3 DEF WriteChain
    <3> QED
      BY <2>3, <3>1
  <2> QED
    BY <2>2, <2>3
<1> HIDE DEF e
<1>4. Good(e, a)
  BY <1>1, <1>2, <1>3, PlannedGood
<1>5. ASSUME NEW b \in Approvals \ {a}, Good(d, b) PROVE Good(e, b)
  <2>1. e[b] = d[b]
    BY <1>1, ApprovalIsNone, ChildFacts
  <2>2. ASSUME NEW c \in Children(d, b) PROVE e[c] = d[c]
    BY <1>1, <2>2, ApprovalIsNone, ChildFacts
  <2> QED
    BY <1>1, <1>5, <2>1, <2>2, GoodKept
<1> QED
  BY <1>4, <1>5 DEF e

(* recalculateLocked, from the approval's own facts. *)
LEMMA RecalculatedGood ==
  ASSUME NEW d \in Database, NEW a \in Approvals, Present(d, a), RecalcOk(d, a),
         NEW flag \in Flags \cup {NoFlag}, NEW w \in BOOLEAN,
         \A c \in Children(d, a) : House[a] = House[c],
         w \/ Sound(d, a)
  PROVE  LET e == Recalculate(d, a, flag, w) IN
         /\ Good(e, a) /\ \A b \in Approvals \ {a} : Good(d, b) => Good(e, b)
         /\ \A i \in Ids : i # a /\ i \notin Children(d, a) => e[i] = d[i]
         /\ \A b : Children(e, b) = Children(d, b)
<1>1. d[a] \in Row
  BY ApprovalIsNone DEF Present, Database
<1>2. /\ d[a].units \in Units /\ d[a].cur \in Currencies /\ d[a].day \in Days
      /\ d[a].at \in Days
  BY <1>1 DEF Row
<1>3. w \/ \A c \in Children(d, a) :
             d[c].day = d[a].day /\ d[c].amount = Krw(d[c].units, d[a].cur, d[a].day)
  BY DEF Sound
<1> QED
  BY <1>2, <1>3, WriteChainGood, WriteChainLinks DEF RecalcOk, Recalculate

LEMMA RecalculatedSelf ==
  ASSUME NEW d \in Database, NEW a \in Approvals, Present(d, a), RecalcOk(d, a),
         \A c \in Children(d, a) : House[a] = House[c]
  PROVE  LET e == Recalculated(d, a) IN
         /\ Good(e, a) /\ \A b \in Approvals \ {a} : Good(d, b) => Good(e, b)
         /\ \A i \in Ids : i # a /\ i \notin Children(d, a) => e[i] = d[i]
         /\ \A b : Children(e, b) = Children(d, b)
<1> DEFINE flag == FlagOf(d[a].status)
<1>1. flag \in Flags \cup {NoFlag}
  BY FlagOfType
<1>2. Recalculated(d, a) = Recalculate(d, a, flag, TRUE)
  BY DEF Recalculated
<1> HIDE DEF flag
<1> DEFINE e == Recalculate(d, a, flag, TRUE)
<1>3. /\ Good(e, a) /\ \A b \in Approvals \ {a} : Good(d, b) => Good(e, b)
      /\ \A i \in Ids : i # a /\ i \notin Children(d, a) => e[i] = d[i]
      /\ \A b : Children(e, b) = Children(d, b)
  <2>1. TRUE \in BOOLEAN
    OBVIOUS
  <2> QED
    BY <1>1, <2>1, RecalculatedGood
<1> QED
  BY <1>2, <1>3

(* What a claim does to the links: c moves from its parent to a. *)
LEMMA ClaimedLinks ==
  ASSUME NEW d \in Database, NEW c \in Cancellations, d[c] \in Row, NEW a \in Approvals
  PROVE  LET e == Claimed(d, c, a) IN
         /\ e \in Database /\ e[c] = [d[c] EXCEPT !.parent = a]
         /\ \A i \in Ids : i # c => e[i] = d[i]
         /\ Children(e, a) = Children(d, a) \cup {c}
         /\ \A b \in Approvals : b # a => Children(e, b) = Children(d, b) \ {c}
<1> DEFINE e == Claimed(d, c, a)
<1>1. c \in Ids
  BY DEF Ids
<1>2. e \in Database /\ e[c] \in Row
  BY <1>1, ClaimedType
<1>3. e[c] = [d[c] EXCEPT !.parent = a] /\ \A i \in Ids : i # c => e[i] = d[i]
  BY <1>1 DEF Claimed, Database
<1>4. e[c].parent = a /\ Present(e, c)
  BY <1>2, <1>3, RowAssumption DEF Row, Present
<1> HIDE DEF e
<1>5. \A i \in Cancellations : i # c => e[i] = d[i]
  BY <1>3 DEF Ids
<1>6. Children(e, a) = Children(d, a) \cup {c}
  BY <1>4, <1>5 DEF Children, Present
<1>7. \A b \in Approvals : b # a => Children(e, b) = Children(d, b) \ {c}
  BY <1>4, <1>5 DEF Children, Present
<1> QED
  BY <1>2, <1>3, <1>6, <1>7 DEF e

(* A chain that looks the same in d and e, children and all. *)
Alike(d, e, a) ==
  e[a] = d[a] /\ Children(e, a) = Children(d, a) /\ \A c \in Children(d, a) : e[c] = d[c]

LEMMA AlikeGood ==
  ASSUME NEW d, NEW e, NEW a, Alike(d, e, a), Good(d, a) PROVE Good(e, a)
BY GoodKept DEF Alike

(* linkCancellation and the link of a new cancellation. *)
LEMMA LinkedGood ==
  ASSUME NEW d \in Database, AllGood(d), NEW c \in Cancellations, d[c] \in Row,
         NEW previous \in Approvals \cup {None}, d[c].parent = previous,
         NEW a, LinkOk(d, c, previous, a)
  PROVE  LET e == Linked(d, c, previous, a) IN
         /\ AllGood(e)
         /\ \A i \in Ids \ LinkTouched(d, c, previous, a) : e[i] = d[i]
         /\ \A b : Children(e, b) = Children(Claimed(d, c, a), b)
<1> DEFINE k == Claimed(d, c, a)
           x == Recalculated(k, a)
           y == Recalculated(k, previous)
           e == Linked(d, c, previous, a)
           moved == previous \in Approvals /\ previous # a
<1>1. a \in Approvals /\ Present(d, a) /\ House[a] = House[c] /\ RecalcOk(k, a)
  BY DEF LinkOk
<1>2. /\ k \in Database /\ k[c] = [d[c] EXCEPT !.parent = a]
      /\ \A i \in Ids : i # c => k[i] = d[i]
      /\ Children(k, a) = Children(d, a) \cup {c}
      /\ \A b \in Approvals : b # a => Children(k, b) = Children(d, b) \ {c}
  BY <1>1, ClaimedLinks
<1>3. \A b \in Approvals : k[b] = d[b] /\ (Present(k, b) <=> Present(d, b))
  BY <1>2, ApprovalIsNone DEF Present
<1>4. \A b \in Approvals : \A i \in Children(k, b) : House[b] = House[i]
  BY <1>1, <1>2 DEF AllGood, Good, Sound
<1>5. ASSUME NEW b \in Approvals, b # a, b # previous PROVE Good(k, b)
  <2>1. c \notin Children(d, b)
    BY <1>5 DEF Children
  <2>2. Alike(d, k, b)
    BY <1>2, <1>3, <1>5, <2>1, ChildFacts DEF Alike
  <2> QED
    BY <2>2, AlikeGood DEF AllGood
<1>6. /\ Good(x, a) /\ \A b \in Approvals \ {a} : Good(k, b) => Good(x, b)
      /\ \A i \in Ids : i # a /\ i \notin Children(k, a) => x[i] = k[i]
      /\ \A b : Children(x, b) = Children(k, b)
  <2>1. k \in Database /\ Present(k, a)
    BY <1>1, <1>2, <1>3
  <2>2. \A i \in Children(k, a) : House[a] = House[i]
    BY <1>1, <1>4
  <2> HIDE DEF k
  <2> QED
    BY <1>1, <2>1, <2>2, RecalculatedSelf
<1>7. /\ Abandoned(previous, a) = IF moved THEN {previous} ELSE {}
      /\ moved => Present(k, previous) /\ RecalcOk(k, previous)
  <2>1. Abandoned(previous, a) = IF moved THEN {previous} ELSE {}
    BY ApprovalIsNone DEF Abandoned
  <2>2. moved => previous \in Abandoned(previous, a)
    BY <2>1
  <2> QED
    BY <1>3, <2>1, <2>2 DEF LinkOk
<1>8. moved =>
      /\ Good(y, previous)
      /\ \A i \in Ids : i # previous /\ i \notin Children(k, previous) => y[i] = k[i]
      /\ \A b : Children(y, b) = Children(k, b)
  <2> SUFFICES ASSUME moved
               PROVE  /\ Good(y, previous)
                      /\ \A i \in Ids : i # previous /\ i \notin Children(k, previous)
                                         => y[i] = k[i]
                      /\ \A b : Children(y, b) = Children(k, b)
    OBVIOUS
  <2>1. previous \in Approvals /\ k \in Database /\ Present(k, previous) /\ RecalcOk(k, previous)
    BY <1>2, <1>7
  <2>2. \A i \in Children(k, previous) : House[previous] = House[i]
    BY <1>4, <2>1
  <2> HIDE DEF k, moved
  <2> QED
    BY <2>1, <2>2, RecalculatedSelf
<1>9. \A i \in Ids :
        e[i] = IF i \in {a} \cup Children(k, a) THEN x[i]
               ELSE IF moved /\ i \in {previous} \cup Children(k, previous) THEN y[i]
               ELSE k[i]
  BY <1>7 DEF Linked
<1>g. LinkTouched(d, c, previous, a)
        = {c, a} \cup Children(k, a) \cup (IF moved THEN {previous} \cup Children(k, previous)
                                            ELSE {})
  BY <1>7 DEF LinkTouched
<1> HIDE DEF e, x, y, k, moved
<1>10. \A b : \A i \in Children(k, b) : i \in Cancellations /\ i \in Ids /\ k[i].parent = b
  BY <1>2, ChildFacts
<1>11. ASSUME NEW i \in Cancellations, NEW b
       PROVE  i \in Children(e, b) <=> i \in Children(k, b)
  <2>1. i \in Ids
    BY DEF Ids
  <2>2. \/ e[i] = x[i] \/ (moved /\ e[i] = y[i]) \/ e[i] = k[i]
    BY <1>9, <2>1
  <2>3. /\ i \in Children(x, b) <=> i \in Children(k, b)
        /\ moved => (i \in Children(y, b) <=> i \in Children(k, b))
    BY <1>6, <1>8
  <2> QED
    BY <2>2, <2>3 DEF Children, Present
<1>12. \A b : Children(e, b) = Children(k, b)
  BY <1>11 DEF Children
<1>13. Good(e, a)
  <2>1. Alike(x, e, a)
    BY <1>1, <1>6, <1>9, <1>10, <1>12, ApprovalIsNone DEF Alike
  <2> QED
    BY <1>6, <2>1, AlikeGood
<1>14. moved => Good(e, previous)
  <2> SUFFICES ASSUME moved PROVE Good(e, previous)
    OBVIOUS
  <2>1. previous \in Approvals /\ previous \in Ids /\ previous # a
        /\ previous \notin Cancellations
    BY ApprovalIsNone DEF moved
  <2>2. e[previous] = y[previous]
    BY <1>9, <1>10, <2>1
  <2>3. ASSUME NEW i \in Children(k, previous) PROVE e[i] = y[i]
    <3>1. i \in Ids /\ k[i].parent = previous /\ i \in Cancellations
      BY <1>10
    <3>2. i # a /\ i \notin Children(k, a)
      BY <1>1, <1>10, <2>1, <3>1, ApprovalIsNone
    <3> QED
      BY <1>9, <3>1, <3>2
  <2>4. Children(e, previous) = Children(k, previous)
        /\ Children(y, previous) = Children(k, previous)
    BY <1>8, <1>12
  <2>5. Alike(y, e, previous)
    BY <2>2, <2>3, <2>4 DEF Alike
  <2> QED
    BY <1>8, <2>5, AlikeGood
<1>15. ASSUME NEW b \in Approvals, b # a, b # previous PROVE Good(e, b)
  <2>1. b \in Ids /\ b \notin Cancellations
    BY ApprovalIsNone
  <2>2. e[b] = k[b]
    BY <1>9, <1>10, <1>15, <2>1
  <2>3. ASSUME NEW i \in Children(k, b) PROVE e[i] = k[i]
    <3>1. i \in Ids /\ k[i].parent = b /\ i \in Cancellations
      BY <1>10
    <3>2. i # a /\ i \notin Children(k, a) /\ (moved => i # previous)
      BY <1>1, <1>10, <1>15, <3>1, ApprovalIsNone DEF moved
    <3>3. i \notin Children(k, previous)
      BY <1>10, <1>15, <3>1
    <3> QED
      BY <1>9, <3>1, <3>2, <3>3
  <2>4. Alike(k, e, b)
    BY <1>12, <2>2, <2>3 DEF Alike
  <2> QED
    BY <1>5, <1>15, <2>4, AlikeGood
<1>16. AllGood(e)
  BY <1>13, <1>14, <1>15 DEF AllGood, moved
<1>17. ASSUME NEW i \in Ids \ LinkTouched(d, c, previous, a) PROVE e[i] = d[i]
  <2>1. i # c /\ i \notin {a} \cup Children(k, a)
        /\ ~(moved /\ i \in {previous} \cup Children(k, previous))
    BY <1>g
  <2> QED
    BY <1>2, <1>9, <2>1
<1> QED
  BY <1>12, <1>16, <1>17 DEF e, k

(* A cancellation that leaves its chain, detached or erased, and the chain  *)
(* it leaves.                                                               *)
LEMMA RestoredGood ==
  ASSUME NEW d \in Database, AllGood(d), NEW c \in Cancellations, d[c] \in Row,
         NEW e \in Database, \A i \in Ids : i # c => e[i] = d[i],
         \A b \in Approvals : c \notin Children(e, b),
         RestoreOk(d, e, c)
  PROVE  LET f == Restored(d, e, c) IN
         /\ AllGood(f)
         /\ \A i \in Ids \ RestoreTouched(d, e, c) : f[i] = d[i]
         /\ \A b \in Approvals : Children(f, b) = Children(d, b) \ {c}
<1> DEFINE p == d[c].parent
           f == Restored(d, e, c)
<1>1. p \in Approvals \cup {None}
  BY DEF Row
<1>2. \A b \in Approvals : e[b] = d[b]
  BY ApprovalIsNone
<1>3. \A b \in Approvals : Children(e, b) = Children(d, b) \ {c}
  <2>1. \A i \in Cancellations : i # c => e[i] = d[i]
    BY DEF Ids
  <2> QED
    BY <2>1 DEF Children, Present
<1>4. ASSUME NEW b \in Approvals, b # p PROVE Good(e, b)
  <2>1. c \notin Children(d, b)
    BY <1>4 DEF Children
  <2>2. Alike(d, e, b)
    BY <1>2, <1>3, <2>1, ChildFacts DEF Alike
  <2> QED
    BY <2>2, AlikeGood DEF AllGood
<1>5. CASE p = None
  <2>1. f = e
    BY <1>5 DEF Restored
  <2>2. AllGood(e)
    BY <1>4, <1>5, ApprovalIsNone DEF AllGood
  <2> QED
    BY <1>3, <2>1, <2>2 DEF RestoreTouched
<1>6. CASE p # None
  <2>1. p \in Approvals /\ f = Recalculated(e, p) /\ Present(e, p) /\ RecalcOk(e, p)
    BY <1>1, <1>6 DEF Restored, RestoreOk
  <2>2. \A i \in Children(e, p) : House[p] = House[i]
    BY <1>3, <2>1 DEF AllGood, Good, Sound
  <2>3. /\ Good(f, p) /\ \A b \in Approvals \ {p} : Good(e, b) => Good(f, b)
        /\ \A i \in Ids : i # p /\ i \notin Children(e, p) => f[i] = e[i]
        /\ \A b : Children(f, b) = Children(e, b)
    BY <2>1, <2>2, RecalculatedSelf
  <2>4. AllGood(f)
    BY <1>4, <2>1, <2>3 DEF AllGood
  <2>5. \A i \in Ids \ RestoreTouched(d, e, c) : f[i] = d[i]
    BY <1>6, <2>3 DEF RestoreTouched
  <2> QED
    BY <1>3, <2>3, <2>4, <2>5
<1> QED
  BY <1>5, <1>6

LEMMA DetachedLinks ==
  ASSUME NEW d \in Database, NEW c \in Cancellations, d[c] \in Row
  PROVE  LET e == Detached(d, c) IN
         /\ e \in Database /\ \A i \in Ids : i # c => e[i] = d[i]
         /\ \A b \in Approvals : c \notin Children(e, b)
         /\ e[c].parent = None
<1>1. c \in Ids
  BY DEF Ids
<1>2. Detached(d, c) \in Database /\ \A i \in Ids : i # c => Detached(d, c)[i] = d[i]
  BY <1>1, DetachedType DEF Detached, Database
<1>3. Detached(d, c)[c].parent = None
  BY <1>1 DEF Detached, Database, Row
<1> QED
  BY <1>2, <1>3, ApprovalIsNone DEF Children

LEMMA ErasedLinks ==
  ASSUME NEW d \in Database, NEW i \in Ids
  PROVE  LET e == Erased(d, i) IN
         /\ e \in Database /\ \A j \in Ids : j # i => e[j] = d[j]
         /\ e[i] = Absent /\ \A b : i \notin Children(e, b)
BY ErasedType DEF Erased, Database, Children, Present

LEMMA ErasedApprovalGood ==
  ASSUME NEW d \in Database, AllGood(d), NEW a \in Approvals, Children(d, a) = {}
  PROVE  AllGood(Erased(d, a))
<1> DEFINE e == Erased(d, a)
<1>1. a \in Ids /\ a \notin Cancellations
  BY ApprovalIsNone
<1>2. /\ \A j \in Ids : j # a => e[j] = d[j]
      /\ e[a] = Absent
  BY <1>1, ErasedLinks
<1> HIDE DEF e
<1>3. \A c \in Cancellations : e[c] = d[c]
  BY <1>1, <1>2 DEF Ids
<1>4. \A b : Children(e, b) = Children(d, b)
  BY <1>3 DEF Children, Present
<1>5. Good(e, a)
  BY <1>2, <1>4 DEF Good, Sound, Present
<1>6. ASSUME NEW b \in Approvals, b # a PROVE Good(e, b)
  <2>1. Alike(d, e, b)
    BY <1>2, <1>3, <1>4, <1>6, ApprovalIsNone, ChildFacts DEF Alike
  <2> QED
    BY <2>1, AlikeGood DEF AllGood
<1> QED
  BY <1>5, <1>6 DEF AllGood, e

(* setReviewFlag of a cancellation writes its status and net only. *)
LEMMA FlaggedPresent ==
  ASSUME NEW d \in Database, NEW c \in Cancellations, d[c] \in Row,
         NEW flag \in Flags \cup {NoFlag}
  PROVE  Flagged(d, c, flag)[c] \in Row
<1> DEFINE status == IF flag # NoFlag THEN flag
                     ELSE IF d[c].parent # None THEN "approved" ELSE "pending_review"
<1>1. 0 \in Units /\ status \in Statuses
  BY RateAssumption DEF Units, Statuses, Flags
<1>2. Flagged(d, c, flag)[c] = [d[c] EXCEPT !.net = 0, !.status = status]
  BY DEF Flagged, Database, Ids
<1> HIDE DEF status
<1> QED
  BY <1>1, <1>2 DEF Row

LEMMA FlaggedGood ==
  ASSUME NEW d \in Database, AllGood(d), NEW c \in Cancellations, d[c] \in Row,
         NEW flag \in Flags \cup {NoFlag}
  PROVE  LET e == Flagged(d, c, flag) IN
         /\ AllGood(e) /\ \A i \in Ids : i # c => e[i] = d[i]
         /\ e[c].parent = d[c].parent
<1> DEFINE e == Flagged(d, c, flag)
<1>1. c \in Ids
  BY DEF Ids
<1>2. \A i \in Ids : i # c => e[i] = d[i]
  BY <1>1 DEF Flagged, Database
<1>3. /\ e[c].parent = d[c].parent /\ e[c].units = d[c].units /\ e[c].cur = d[c].cur
      /\ e[c].day = d[c].day /\ e[c].amount = d[c].amount
  BY <1>1 DEF Flagged, Database, Row
<1>4. e[c] # Absent
  BY FlaggedPresent, RowAssumption
<1> HIDE DEF e
<1>5. \A b : Children(e, b) = Children(d, b)
  <2>1. \A i \in Cancellations : i # c => e[i] = d[i]
    BY <1>2 DEF Ids
  <2>2. d[c] # Absent
    BY RowAssumption
  <2> QED
    BY <1>3, <1>4, <2>1, <2>2 DEF Children, Present
<1>6. ASSUME NEW b \in Approvals PROVE Good(e, b)
  <2>1. e[b] = d[b]
    BY <1>2, ApprovalIsNone
  <2>2. \A i \in Children(d, b) : /\ e[i].units = d[i].units /\ e[i].cur = d[i].cur
                                  /\ e[i].day = d[i].day /\ e[i].amount = d[i].amount
    BY <1>2, <1>3, ChildFacts
  <2> QED
    BY <1>5, <2>1, <2>2, GoodKept DEF AllGood
<1> QED
  BY <1>2, <1>3, <1>6 DEF AllGood, e

(* Two ledgers with the same rows. *)
LEMMA SameGood ==
  ASSUME NEW d, NEW e, \A i \in Ids : e[i] = d[i]
  PROVE  /\ \A b : Children(e, b) = Children(d, b)
         /\ \A b \in Approvals : Good(d, b) => Good(e, b)
         /\ AllGood(d) => AllGood(e)
<1>1. \A c \in Cancellations : e[c] = d[c]
  BY DEF Ids
<1>2. \A b : Children(e, b) = Children(d, b)
  BY <1>1 DEF Children, Present
<1>3. ASSUME NEW b \in Approvals PROVE Alike(d, e, b)
  BY <1>1, <1>2, ApprovalIsNone DEF Alike, Children
<1> QED
  BY <1>2, <1>3, AlikeGood DEF AllGood

(* The insert of a cancellation, and of an approval. *)
LEMMA InsertedGood ==
  ASSUME NEW d \in Database, AllGood(d), NEW c \in Cancellations, ~Present(d, c),
         NEW e, e[c] \in Row, e[c].parent = None, \A i \in Ids : i # c => e[i] = d[i]
  PROVE  AllGood(e) /\ \A b \in Approvals : Children(e, b) = Children(d, b)
<1>1. \A i \in Cancellations : i # c => e[i] = d[i]
  BY DEF Ids
<1>2. \A b \in Approvals : Children(e, b) = Children(d, b)
  BY <1>1, ApprovalIsNone DEF Children, Present
<1>3. ASSUME NEW b \in Approvals PROVE Alike(d, e, b)
  <2>1. c \notin Children(d, b)
    BY DEF Children
  <2> QED
    BY <1>1, <1>2, <2>1, ApprovalIsNone, ChildFacts DEF Alike
<1> QED
  BY <1>2, <1>3, AlikeGood DEF AllGood

LEMMA NoChildrenYet ==
  ASSUME NEW d, AllGood(d), NEW a \in Approvals, ~Present(d, a)
  PROVE  Children(d, a) = {}
BY DEF AllGood, Good, Sound

LEMMA ApprovedGood ==
  ASSUME NEW d \in Database, AllGood(d), NEW a \in Approvals, ~Present(d, a),
         NEW units \in Units, NEW cur \in Currencies, NEW at \in Days,
         NEW flag \in Flags \cup {NoFlag}, ApprovalOk(d, a, units, cur, at),
         NEW e, e[a] = WithApproval(d, a, units, cur, at, flag)[a],
         \A i \in Ids : i # a => e[i] = d[i]
  PROVE  AllGood(e)
<1> DEFINE f == WriteChain(d, a, units, cur, at, at, flag, TRUE)
<1>1. Children(d, a) = {}
  BY NoChildrenYet
<1>2. PlanOk(d, a, units, cur, at) /\ TRUE \in BOOLEAN
  BY DEF ApprovalOk
<1>3. /\ Good(f, a) /\ \A b \in Approvals \ {a} : Good(d, b) => Good(f, b)
      /\ \A i \in Ids : i # a => f[i] = d[i]
  <2>1. Good(f, a) /\ \A b \in Approvals \ {a} : Good(d, b) => Good(f, b)
    BY <1>1, <1>2, WriteChainGood
  <2>2. \A i \in Ids : i # a => f[i] = d[i]
    BY <1>1 DEF WriteChain
  <2> QED
    BY <2>1, <2>2
<1>4. \A i \in Ids : e[i] = f[i]
  BY <1>3 DEF WithApproval
<1> HIDE DEF f
<1>5. AllGood(f)
  BY <1>3 DEF AllGood
<1> QED
  BY <1>4, <1>5, SameGood

(* amendApproval and recalculateChain, over all chains. *)
LEMMA AmendedGood ==
  ASSUME NEW d \in Database, AllGood(d), NEW k \in Commands, k.id \in Approvals,
         Present(d, k.id), AmendOk(d, k)
  PROVE  LET e == Amended(d, k) IN
         /\ AllGood(e) /\ \A b : Children(e, b) = Children(d, b)
         /\ \A i \in Ids : i # k.id /\ i \notin Children(d, k.id) => e[i] = d[i]
<1> DEFINE units == Fact(d, k, "units")
           cur == Fact(d, k, "cur")
           at == Fact(d, k, "at")
<1>1. d[k.id] \in Row
  BY ApprovalIsNone DEF Present, Database
<1>2. units \in Units /\ cur \in Currencies /\ at \in Days /\ k.flag \in Flags \cup {NoFlag}
  BY <1>1, CommandType DEF Fact, Row
<1>3. PlanOk(d, k.id, units, cur, at)
  BY DEF AmendOk
<1>w. PICK w \in BOOLEAN : w = TRUE
  OBVIOUS
<1>4. \A c \in Children(d, k.id) : House[k.id] = House[c]
  BY DEF AllGood, Good, Sound
<1>5. Amended(d, k) = WriteChain(d, k.id, units, cur, at, at, k.flag, w)
  BY <1>w DEF Amended
<1> HIDE DEF units, cur, at
<1> DEFINE e == WriteChain(d, k.id, units, cur, at, at, k.flag, w)
<1>6. Good(e, k.id) /\ \A b \in Approvals \ {k.id} : Good(d, b) => Good(e, b)
  BY <1>w, <1>2, <1>3, <1>4, WriteChainGood
<1>7. /\ \A i \in Ids : i # k.id /\ i \notin Children(d, k.id) => e[i] = d[i]
      /\ \A b : Children(e, b) = Children(d, b)
  <2>1. \A i \in Ids : i # k.id /\ i \notin Children(d, k.id) => e[i] = d[i]
    BY DEF WriteChain
  <2>2. \A b : Children(e, b) = Children(d, b)
    <3> DEFINE a == k.id
               flag == k.flag
    <3>1. /\ a \in Approvals /\ flag \in Flags \cup {NoFlag} /\ PlanOk(d, a, units, cur, at)
          /\ e = WriteChain(d, a, units, cur, at, at, flag, w)
      BY <1>2, <1>3
    <3> HIDE DEF a, flag, e
    <3> QED
      BY <1>2, <3>1, WriteChainLinks
  <2> QED
    BY <2>1, <2>2
<1> HIDE DEF e
<1>8. AllGood(e)
  BY <1>6 DEF AllGood
<1> QED
  BY <1>5, <1>7, <1>8 DEF e

(* Among finitely many numbers there is a lowest. *)
LEMMA LowestIs ==
  ASSUME NEW T \in SUBSET Ids, T # {}
  PROVE  Lowest(T) \in T /\ \A j \in T : Lowest(T) <= j
<1> DEFINE Below(x) == {j \in Ids : j < x}
           S == {Below(x) : x \in T}
           less == StrictSubsetOrdering(Ids)
<1>1. IsFiniteSet(Ids) /\ Ids \subseteq Nat
  BY IdsAssumption DEF Ids
<1>2. IsWellFoundedOn(less, FiniteSubsetsOf(Ids))
  BY FS_StrictSubsetOrderingWellFounded
<1>3. S \subseteq FiniteSubsetsOf(Ids) /\ S # {}
  <2>1. ASSUME NEW x \in T PROVE Below(x) \in FiniteSubsetsOf(Ids)
    BY <1>1, FS_Subset DEF FiniteSubsetsOf
  <2> QED
    BY <2>1
<1>4. PICK B \in S : \A C \in S : ~(<<C, B>> \in less)
  BY <1>2, <1>3, WFMin
<1>5. PICK i \in T : B = Below(i)
  OBVIOUS
<1>6. ASSUME NEW j \in T PROVE i <= j
  <2> SUFFICES ASSUME j < i PROVE FALSE
    BY <1>1
  <2>0. i \in Nat /\ j \in Nat /\ j \in Ids
    BY <1>1
  <2>1. Below(j) \subseteq Below(i) /\ j \in Below(i) /\ j \notin Below(j)
    <3>1. ASSUME NEW x \in Ids, x < j PROVE x < i
      BY <1>1, <2>0, <3>1
    <3>2. ~(j < j)
      BY <2>0
    <3> QED
      BY <2>0, <3>1, <3>2
  <2>2. <<Below(j), B>> \in less
    BY <1>5, <2>1 DEF StrictSubsetOrdering
  <2> QED
    BY <1>4, <2>2
<1> QED
  BY <1>6 DEF Lowest

-----------------------------------------------------------------------------
(* The steps of a session, and what they leave alone.                      *)
LEMMA Types ==
  ASSUME TypeInv
  PROVE  /\ db \in Database /\ deleted \subseteq Ids
         /\ lock \in [Ids -> Sessions \cup {Free}]
         /\ pc \in [Sessions -> Labels] /\ cmd \in [Sessions -> Commands]
         /\ seen \in [Sessions -> Ids \cup {None}] /\ todo \in [Sessions -> SUBSET Ids]
         /\ write \in [Sessions -> [Ids -> Row \cup {Absent, Keep}]]
         /\ \A i \in Ids : Present(db, i) => db[i] \in Row
         /\ \A s \in Sessions : cmd[s] \in Commands /\ cmd[s].id \in Ids
                                /\ cmd[s].to \in Ids \cup {None}
<1>1. TypeOK
  BY DEF TypeInv
<1> QED
  BY <1>1, CommandType DEF TypeOK, Database, Present

Stays(u) ==
  /\ pc'[u] = pc[u] /\ cmd'[u] = cmd[u] /\ seen'[u] = seen[u]
  /\ todo'[u] = todo[u] /\ write'[u] = write[u]

LEMMA OwnViewKept ==
  ASSUME NEW u, db' = db, write'[u] = write[u] PROVE OwnView(u)' = OwnView(u)
BY DEF OwnView

LEMMA SessionKept ==
  ASSUME TypeInv, NEW u \in Sessions, SessionInv(u), Stays(u), db' = db, deleted' = deleted,
         \A i \in Ids : (lock'[i] = u) <=> (lock[i] = u)
  PROVE  SessionInv(u)'
<1>t. cmd[u].id \in Ids
  BY Types
<1>1. \A i \in Ids : Own(u, i)' <=> Own(u, i)
  BY DEF Own, Stays
<1>2. CommandInv(u)'
  BY <1>1 DEF SessionInv, CommandInv, Stays, Present
<1>3. Chains(u)' = Chains(u)
  BY DEF Chains, Stays
<1>4. \A p \in Chains(u) : p \in Ids
  BY ApprovalIsNone DEF Chains
<1>5. ReadInv(u)'
  BY <1>t, <1>3, <1>4 DEF SessionInv, ReadInv, Stays, Present
<1>6. WriteInv(u)'
  <2> SUFFICES ASSUME pc[u] = "update" PROVE WriteInv(u)'
    BY DEF WriteInv, Stays
  <2>1. ASSUME NEW i \in Ids, write[u][i] # Keep
        PROVE  /\ Own(u, i)' \/ (Present(db, i) /\ (i \in todo[u] \/ lock'[i] = u))
               /\ i \in Approvals => lock'[i] = u
               /\ i \in Cancellations /\ Present(db, i) =>
                    lock'[IF db[i].parent = None THEN i ELSE db[i].parent] = u
               /\ i \in Cancellations /\ write[u][i] \in Row /\ write[u][i].parent # None =>
                    lock'[write[u][i].parent] = u
    <3>1. Present(db, i) => db[i].parent = None \/ db[i].parent \in Ids
      BY Types DEF Row, Ids
    <3>2. write[u][i] \in Row => write[u][i].parent = None \/ write[u][i].parent \in Ids
      BY DEF Row, Ids
    <3> QED
      BY <1>1, <2>1, <3>1, <3>2 DEF SessionInv, WriteInv
  <2>2. \A a \in Approvals : lock'[a] = u => Good(OwnView(u)', a)
    BY OwnViewKept, ApprovalIsNone DEF SessionInv, WriteInv, Stays
  <2>3. \A i \in todo[u] : write[u][i] # Keep
    BY DEF SessionInv, WriteInv
  <2> QED
    BY <2>1, <2>2, <2>3 DEF WriteInv, Stays, Present
<1> QED
  BY <1>2, <1>5, <1>6 DEF SessionInv

(* A statement that commits nothing concerns its own session only. *)
LEMMA OwnStep ==
  ASSUME TypeInv, LedgerInv, NEW s \in Sessions, db' = db, deleted' = deleted,
         \A u \in Sessions \ {s} : Stays(u),
         \A i \in Ids : \/ lock'[i] = lock[i]
                        \/ lock[i] \in {Free, s} /\ lock'[i] \in {Free, s},
         \A i \in Ids : lock'[i] = s => pc'[s] \in Late,
         SessionInv(s)'
  PROVE  LedgerInv'
<1>1. AllGood(db')
  BY DEF LedgerInv
<1>2. LockInv'
  <2>1. ASSUME NEW i \in Ids, lock'[i] # Free PROVE pc'[lock'[i]] \in Late
    <3>1. CASE lock'[i] = s
      BY <3>1
    <3>2. CASE lock'[i] # s
      <4>1. lock'[i] = lock[i] /\ lock[i] \in Sessions \ {s}
        BY <2>1, <3>2, Types
      <4> QED
        BY <4>1, <2>1 DEF LedgerInv, LockInv, Stays
    <3> QED
      BY <3>1, <3>2
  <2> QED
    BY <2>1 DEF LedgerInv, LockInv, Present
<1>3. ASSUME NEW u \in Sessions \ {s} PROVE SessionInv(u)'
  <2>1. \A i \in Ids : (lock'[i] = u) <=> (lock[i] = u)
    BY SessionAssumption
  <2> QED
    BY <2>1, SessionKept DEF LedgerInv
<1> QED
  BY <1>1, <1>2, <1>3 DEF LedgerInv

LEMMA RollbackKeeps ==
  ASSUME TypeInv, LedgerInv, NEW s \in Sessions, Rollback(s)
  PROVE  LedgerInv'
<1>1. /\ pc'[s] = "idle" /\ write'[s] = NoWrites /\ todo'[s] = {}
      /\ \A u \in Sessions \ {s} : Stays(u)
  BY Types DEF Rollback, Close, Stays
<1>2. db' = db /\ deleted' = deleted
  BY DEF Rollback
<1>3. \A i \in Ids : /\ lock'[i] # s
                     /\ lock'[i] = lock[i] \/ (lock[i] = s /\ lock'[i] = Free)
  BY SessionAssumption DEF Rollback, Close
<1>4. SessionInv(s)'
  <2>1. \A i \in Ids : ~Own(s, i)' /\ write'[s][i] = Keep
    BY <1>1 DEF Own, Late, NoWrites
  <2> QED
    BY <1>1, <2>1 DEF SessionInv, CommandInv, ReadInv, WriteInv
<1> QED
  BY <1>1, <1>2, <1>3, <1>4, OwnStep

(* A session that is not at its update holds no version but its insert. *)
LEMMA NothingWritten ==
  ASSUME TypeInv, LedgerInv, NEW s \in Sessions, pc[s] # "update",
         pc[s] \notin Late \/ cmd[s].op \notin Creates
  PROVE  \A i \in Ids : write[s][i] = Keep /\ ~Own(s, i)
BY DEF LedgerInv, SessionInv, CommandInv, Own

LEMMA BeginKeeps ==
  ASSUME TypeInv, LedgerInv, NEW s \in Sessions, NEW k \in Commands, Begin(s, k)
  PROVE  LedgerInv'
<1>1. /\ pc[s] = "idle" /\ db' = db /\ deleted' = deleted /\ lock' = lock
      /\ cmd'[s] = k /\ write'[s] = write[s] /\ todo'[s] = todo[s]
      /\ \A u \in Sessions \ {s} : Stays(u)
      /\ k.op \in Creates => pc'[s] = "insert"
      /\ k.op \notin Creates => pc'[s] = "observe" /\ Present(db, k.id)
      /\ k.to # None => Present(db, k.to)
  BY Types DEF Begin, Goto, Stays
<1>2. \A i \in Ids : lock'[i] # s
  BY <1>1, SessionAssumption DEF LedgerInv, LockInv, Late
<1>3. SessionInv(s)'
  <2>1. \A i \in Ids : ~Own(s, i)' /\ write'[s][i] = Keep
    BY <1>1, NothingWritten DEF Own, Late
  <2>2. CommandInv(s)'
    BY <1>1, <2>1 DEF CommandInv, Creates, Present
  <2>3. todo'[s] = {}
    BY <1>1 DEF LedgerInv, SessionInv, ReadInv
  <2> QED
    BY <1>1, <2>2, <2>3 DEF SessionInv, ReadInv, WriteInv
<1> QED
  BY <1>1, <1>2, <1>3, OwnStep

LEMMA ObserveKeeps ==
  ASSUME TypeInv, LedgerInv, NEW s \in Sessions, Observe(s)
  PROVE  LedgerInv'
<1> DEFINE k == cmd[s]
<1>1. CASE ~(Present(db, k.id) /\ RightType(k))
  <2>1. Rollback(s)
    BY <1>1, Zenon DEF Observe
  <2> QED
    BY <2>1, RollbackKeeps
<1>2. CASE Present(db, k.id) /\ RightType(k)
  <2>t. k \in Commands /\ k.id \in Ids /\ db[k.id] \in Row /\ k.to \in Ids \cup {None}
    BY <1>2, Types
  <2>1. /\ pc[s] = "observe" /\ db' = db /\ deleted' = deleted /\ lock' = lock
        /\ cmd'[s] = k /\ write'[s] = write[s] /\ pc'[s] = "parents"
        /\ seen'[s] = db[k.id].parent /\ todo'[s] = ParentsToLock(k)
        /\ \A u \in Sessions \ {s} : Stays(u)
    BY <1>2, Types DEF Observe, Goto, Stays
  <2>2. k.op \notin Creates
    BY <2>1 DEF LedgerInv, SessionInv, CommandInv
  <2>3. \A i \in Ids : lock'[i] # s
    BY <2>1, SessionAssumption DEF LedgerInv, LockInv, Late
  <2>4. \A i \in Ids : write'[s][i] = Keep /\ ~Own(s, i)'
    BY <2>1, <2>2, NothingWritten DEF Own, Late
  <2>5. ASSUME NEW p \in Approvals, p \in Chains(s)'
        PROVE  (p \in todo'[s] /\ Present(db, p)) \/ p \in deleted
    <3>0. p # None
      BY ApprovalIsNone
    <3>1. CASE p = k.id
      <4>1. k.op \notin {"link", "unlink", "removeCancellation"}
        BY <1>2, <3>1, ApprovalIsNone DEF RightType
      <4>2. p \in ParentsToLock(k)
        <5>1. CASE k.op \in {"amend", "recalculate"}
          BY <3>1, <5>1 DEF ParentsToLock
        <5>2. CASE k.op \notin {"amend", "recalculate"}
          BY <3>1, <4>1, <5>2 DEF ParentsToLock
        <5> QED
          BY <5>1, <5>2
      <4> QED
        BY <1>2, <2>1, <3>1, <4>2
    <3>2. CASE k.op = "link" /\ p = k.to
      <4>1. p \in ParentsToLock(k)
        BY <3>0, <3>2 DEF ParentsToLock
      <4>2. Present(db, p) \/ p \in deleted
        BY <2>1, <3>0, <3>2 DEF LedgerInv, SessionInv, CommandInv
      <4> QED
        BY <2>1, <4>1, <4>2
    <3>3. CASE p = db[k.id].parent /\ k.op \notin {"amend", "recalculate"}
      <4>1. k.id \in Cancellations
        BY <1>2, <2>t, <3>0, <3>3 DEF LedgerInv, AllGood, Good, Ids
      <4>2. k.id \in Children(db, p)
        BY <1>2, <3>3, <4>1 DEF Children
      <4>3. Present(db, p)
        BY <4>2 DEF LedgerInv, AllGood, Good, Sound
      <4>4. p \in ParentsToLock(k)
        <5>1. k.id \notin Approvals
          BY <4>1, ApprovalIsNone
        <5>2. CASE k.op = "link"
          BY <3>0, <3>3, <5>2 DEF ParentsToLock
        <5>3. CASE k.op # "link"
          BY <3>0, <3>3, <5>1, <5>3 DEF ParentsToLock
        <5> QED
          BY <5>2, <5>3
      <4> QED
        BY <2>1, <4>3, <4>4
    <3> QED
      BY <2>1, <2>5, <3>1, <3>2, <3>3 DEF Chains
  <2>6. ReadInv(s)'
    BY <2>1, <2>5 DEF ReadInv, Chains, Present
  <2>7. CommandInv(s)'
    BY <2>1, <2>2, <2>4 DEF LedgerInv, SessionInv, CommandInv, Creates, Present
  <2>8. SessionInv(s)'
    BY <2>1, <2>6, <2>7 DEF SessionInv, WriteInv
  <2> QED
    BY <2>1, <2>3, <2>8, OwnStep
<1> QED
  BY <1>1, <1>2

(* Acquiring a lock, of a row that is there. *)
LEMMA Acquired ==
  ASSUME TypeInv, NEW s \in Sessions, NEW i \in Ids, Acquire(s, i)
  PROVE  /\ \A j \in Ids : j # i => lock'[j] = lock[j]
         /\ \A j \in Ids : lock[j] = s => lock'[j] = s
         /\ \A j \in Ids : lock'[j] = lock[j] \/ (lock[j] \in {Free, s} /\ lock'[j] = s)
         /\ Present(db, i) => lock'[i] = s
         /\ ~Present(db, i) => lock' = lock
<1>1. lock \in [Ids -> Sessions \cup {Free}]
  BY Types
<1>2. CASE Present(db, i)
  <2>1. lock' = [lock EXCEPT ![i] = s] /\ lock[i] \in {Free, s}
    BY <1>2 DEF Acquire
  <2>2. lock'[i] = s /\ \A j \in Ids : j # i => lock'[j] = lock[j]
    BY <1>1, <2>1
  <2> QED
    BY <1>2, <2>1, <2>2
<1>3. CASE ~Present(db, i)
  BY <1>3 DEF Acquire
<1> QED
  BY <1>2, <1>3

LEMMA LockParentKeeps ==
  ASSUME TypeInv, LedgerInv, NEW s \in Sessions, LockParent(s)
  PROVE  LedgerInv'
<1> DEFINE i == Lowest(todo[s])
<1>1. /\ pc[s] = "parents" /\ todo[s] # {} /\ Acquire(s, i)
      /\ todo'[s] = todo[s] \ {i} /\ db' = db /\ deleted' = deleted
      /\ cmd'[s] = cmd[s] /\ seen'[s] = seen[s] /\ write'[s] = write[s] /\ pc'[s] = pc[s]
      /\ \A u \in Sessions \ {s} : Stays(u)
  BY Types DEF LockParent, LockNext, Stays
<1>2. i \in todo[s] /\ i \in Ids
  BY <1>1, Types, LowestIs
<1> HIDE DEF i
<1>3. /\ \A j \in Ids : j # i => lock'[j] = lock[j]
      /\ \A j \in Ids : lock[j] = s => lock'[j] = s
      /\ \A j \in Ids : lock'[j] = lock[j] \/ (lock[j] \in {Free, s} /\ lock'[j] = s)
      /\ Present(db, i) => lock'[i] = s
      /\ ~Present(db, i) => lock' = lock
  BY <1>1, <1>2, Acquired
<1>4. CommandInv(s)'
  <2>1. \A j \in Ids : Own(s, j)' <=> Own(s, j)
    BY <1>1 DEF Own
  <2> QED
    BY <1>1, <1>3, <2>1 DEF LedgerInv, SessionInv, CommandInv, Present
<1>5. ReadInv(s)'
  <2>1. Chains(s)' = Chains(s) /\ \A p \in Chains(s) : p \in Ids
    BY <1>1, ApprovalIsNone DEF Chains
  <2>2. ASSUME NEW p \in Chains(s)
        PROVE  (p \in todo'[s] /\ Present(db, p)) \/ lock'[p] = s \/ p \in deleted
    BY <1>1, <1>3, <2>1, <2>2 DEF LedgerInv, SessionInv, ReadInv
  <2> QED
    BY <1>1, <2>1, <2>2 DEF ReadInv, Present
<1>6. SessionInv(s)'
  BY <1>1, <1>4, <1>5 DEF SessionInv, WriteInv
<1>7. pc'[s] \in Late
  BY <1>1 DEF Late
<1> QED
  BY <1>1, <1>3, <1>6, <1>7, OwnStep

LEMMA ParentsLockedKeeps ==
  ASSUME TypeInv, LedgerInv, NEW s \in Sessions, ParentsLocked(s)
  PROVE  LedgerInv'
<1>1. /\ pc[s] = "parents" /\ todo[s] = {} /\ db' = db /\ deleted' = deleted /\ lock' = lock
      /\ todo'[s] = todo[s] /\ cmd'[s] = cmd[s] /\ seen'[s] = seen[s] /\ write'[s] = write[s]
      /\ pc'[s] = IF cmd[s].id \in Cancellations THEN "child" ELSE "body"
      /\ \A u \in Sessions \ {s} : Stays(u)
  BY Types DEF ParentsLocked, Goto, Stays
<1>2. CommandInv(s)'
  <2>1. \A j \in Ids : Own(s, j)' <=> Own(s, j)
    BY <1>1 DEF Own, Late
  <2> QED
    BY <1>1, <2>1 DEF LedgerInv, SessionInv, CommandInv, Present
<1>3. ReadInv(s)'
  <2>1. Chains(s)' = Chains(s)
    BY <1>1 DEF Chains
  <2> QED
    BY <1>1, <2>1 DEF LedgerInv, SessionInv, ReadInv, Present
<1>4. SessionInv(s)'
  BY <1>1, <1>2, <1>3 DEF SessionInv, WriteInv
<1>5. pc'[s] \in Late
  BY <1>1 DEF Late
<1> QED
  BY <1>1, <1>4, <1>5, OwnStep

LEMMA LockChildKeeps ==
  ASSUME TypeInv, LedgerInv, NEW s \in Sessions, LockChild(s)
  PROVE  LedgerInv'
<1> DEFINE c == cmd[s].id
<1>1. /\ pc[s] = "child" /\ Acquire(s, c) /\ db' = db /\ deleted' = deleted
      /\ todo'[s] = todo[s] /\ cmd'[s] = cmd[s] /\ seen'[s] = seen[s] /\ write'[s] = write[s]
      /\ pc'[s] = "body" /\ c \in Ids
      /\ \A u \in Sessions \ {s} : Stays(u)
  BY Types DEF LockChild, Goto, Stays
<1>2. /\ \A j \in Ids : lock[j] = s => lock'[j] = s
      /\ \A j \in Ids : lock'[j] = lock[j] \/ (lock[j] \in {Free, s} /\ lock'[j] = s)
      /\ Present(db, c) => lock'[c] = s
  BY <1>1, Acquired
<1>3. \A j \in Ids : Own(s, j)' <=> Own(s, j)
  BY <1>1 DEF Own, Late
<1>4. CommandInv(s)'
  BY <1>1, <1>2, <1>3 DEF LedgerInv, SessionInv, CommandInv, Present
<1>5. lock'[c] = s \/ c \in deleted
  <2>1. CASE cmd[s].op \in Creates
    <3>1. Own(s, c)
      BY <1>1, <2>1 DEF Own, Late
    <3>2. lock[c] = s
      BY <1>1, <3>1 DEF LedgerInv, SessionInv, CommandInv
    <3> QED
      BY <1>1, <1>2, <3>2
  <2>2. CASE cmd[s].op \notin Creates
    BY <1>1, <1>2, <2>2 DEF LedgerInv, SessionInv, CommandInv
  <2> QED
    BY <2>1, <2>2
<1>6. ReadInv(s)'
  <2>1. Chains(s)' = Chains(s) /\ \A p \in Chains(s) : p \in Ids
    BY <1>1, ApprovalIsNone DEF Chains
  <2>2. \A p \in Chains(s) : (p \in todo[s] /\ Present(db, p)) \/ lock[p] = s \/ p \in deleted
    BY <1>1 DEF LedgerInv, SessionInv, ReadInv
  <2>3. todo[s] = {}
    BY <1>1 DEF LedgerInv, SessionInv, ReadInv
  <2> QED
    BY <1>1, <1>2, <1>5, <2>1, <2>2, <2>3 DEF ReadInv
<1>7. SessionInv(s)'
  BY <1>1, <1>4, <1>6 DEF SessionInv, WriteInv
<1>8. pc'[s] \in Late
  BY <1>1 DEF Late
<1> QED
  BY <1>1, <1>2, <1>7, <1>8, OwnStep

(* The inserts, and the search for the approval of a new cancellation. *)
LEMMA InsertApprovalKeeps ==
  ASSUME TypeInv, LedgerInv, NEW s \in Sessions, InsertApproval(s)
  PROVE  LedgerInv'
<1> DEFINE k == cmd[s]
           a == k.id
           row == WithApproval(db, a, k.units, k.cur, k.at, k.flag)[a]
<1>t. /\ k \in Commands /\ a \in Approvals /\ a \in Ids /\ a \notin Cancellations
      /\ k.units \in Units /\ k.cur \in Currencies /\ k.at \in Days
      /\ k.flag \in Flags \cup {NoFlag}
  BY Types, CommandType, ApprovalIsNone DEF InsertApproval, At
<1>o. pc[s] = "insert" /\ k.op = "createApproval"
  BY DEF InsertApproval, At
<1>1. CASE ~(~Present(db, a) /\ a \notin deleted /\ ApprovalOk(db, a, k.units, k.cur, k.at))
  <2>1. Rollback(s)
    BY <1>1, Zenon DEF InsertApproval
  <2> QED
    BY <2>1, RollbackKeeps
<1>2. CASE ~Present(db, a) /\ a \notin deleted /\ ApprovalOk(db, a, k.units, k.cur, k.at)
  <2>n. \A i \in Ids : write[s][i] = Keep
    BY <1>o, NothingWritten DEF Late
  <2>h. \A i \in Ids : lock[i] # s
    BY <1>o, SessionAssumption DEF LedgerInv, LockInv, Late
  <2>1. /\ lock[a] = Free /\ lock' = [lock EXCEPT ![a] = s]
        /\ write' = [write EXCEPT ![s] = [write[s] EXCEPT ![a] = row]]
        /\ pc' = [pc EXCEPT ![s] = "update"]
        /\ UNCHANGED <<db, deleted, cmd, seen, todo, started>>
    BY <1>2, Zenon DEF InsertApproval, Goto
  <2>r. row \in Row
    <3>1. PlanOk(db, a, k.units, k.cur, k.at)
      BY <1>2 DEF ApprovalOk
    <3>2. row = PlannedApproval(db, a, k.units, k.cur, k.at, k.at, k.flag)
      BY <1>t DEF WithApproval, WriteChain
    <3>3. db \in Database
      BY Types
    <3> HIDE DEF row, k, a
    <3> QED
      BY <1>t, <3>1, <3>2, <3>3, PlannedApprovalType
  <2>v. row = WithApproval(db, a, k.units, k.cur, k.at, k.flag)[a]
    OBVIOUS
  <2> HIDE DEF row
  <2>2. /\ write'[s][a] = row /\ \A i \in Ids : i # a => write'[s][i] = Keep
        /\ lock'[a] = s /\ \A i \in Ids : i # a => lock'[i] = lock[i]
        /\ pc'[s] = "update" /\ cmd'[s] = k /\ todo'[s] = todo[s]
        /\ db' = db /\ deleted' = deleted
        /\ \A u \in Sessions \ {s} : Stays(u)
    BY <1>t, <2>1, <2>n, Types DEF Stays
  <2>3. todo'[s] = {}
    BY <1>o, <2>2 DEF LedgerInv, SessionInv, ReadInv
  <2>4. \A i \in Ids : Own(s, i)' <=> i = a
    BY <1>o, <2>2 DEF Own, Late, Creates
  <2>5. AllGood(OwnView(s)')
    <3> DEFINE e == OwnView(s)'
    <3>1. e[a] = row /\ \A i \in Ids : i # a => e[i] = db[i]
      BY <1>t, <2>2, <2>r, RowAssumption DEF OwnView
    <3>2. db \in Database /\ AllGood(db)
      BY Types DEF LedgerInv
    <3> HIDE DEF e, k, a
    <3>3. AllGood(e)
      BY <1>2, <1>t, <2>v, <3>1, <3>2, ApprovedGood
    <3> QED
      BY <3>3 DEF e
  <2>6. CommandInv(s)'
    <3>1. k.to # None => Present(db, k.to) \/ k.to \in deleted
      BY <1>o DEF LedgerInv, SessionInv, CommandInv
    <3> QED
      BY <1>2, <1>o, <2>2, <2>4, <2>r, <3>1 DEF CommandInv, Creates, Present
  <2>7. WriteInv(s)'
    <3>1. \A i \in Ids : write'[s][i] # Keep => i = a
      BY <2>2
    <3> QED
      BY <1>t, <2>2, <2>3, <2>4, <2>5, <3>1 DEF WriteInv, AllGood
  <2>8. SessionInv(s)'
    BY <2>2, <2>6, <2>7 DEF SessionInv, ReadInv
  <2>9. pc'[s] \in Late
    BY <2>2 DEF Late
  <2>10. \A i \in Ids : lock'[i] = lock[i] \/ (lock[i] \in {Free, s} /\ lock'[i] \in {Free, s})
    BY <1>t, <2>1, <2>2
  <2> QED
    BY <2>2, <2>8, <2>9, <2>10, OwnStep
<1> QED
  BY <1>1, <1>2

LEMMA InsertCancellationKeeps ==
  ASSUME TypeInv, LedgerInv, NEW s \in Sessions, InsertCancellation(s)
  PROVE  LedgerInv'
<1> DEFINE k == cmd[s]
           c == k.id
           row == NewCancellation(k.units, k.cur, k.at)
<1>t. /\ k \in Commands /\ c \in Cancellations /\ c \in Ids
      /\ k.units \in Units /\ k.cur \in Currencies /\ k.at \in Days
  BY Types, CommandType DEF InsertCancellation, At
<1>o. pc[s] = "insert" /\ k.op = "createCancellation"
  BY DEF InsertCancellation, At
<1>1. CASE ~(~Present(db, c) /\ c \notin deleted /\ Convertible(k.units, k.cur, k.at))
  <2>1. Rollback(s)
    BY <1>1, Zenon DEF InsertCancellation
  <2> QED
    BY <2>1, RollbackKeeps
<1>2. CASE ~Present(db, c) /\ c \notin deleted /\ Convertible(k.units, k.cur, k.at)
  <2>n. \A i \in Ids : write[s][i] = Keep
    BY <1>o, NothingWritten DEF Late
  <2>1. /\ lock[c] = Free /\ lock' = [lock EXCEPT ![c] = s]
        /\ write' = [write EXCEPT ![s] = [write[s] EXCEPT ![c] = row]]
        /\ pc' = [pc EXCEPT ![s] = "match"]
        /\ UNCHANGED <<db, deleted, cmd, seen, todo, started>>
    BY <1>2, Zenon DEF InsertCancellation, Goto
  <2>r. row \in Row
    BY <1>2, <1>t, NewCancellationType
  <2>2. /\ write'[s][c] = row /\ \A i \in Ids : i # c => write'[s][i] = Keep
        /\ lock'[c] = s /\ \A i \in Ids : i # c => lock'[i] = lock[i]
        /\ pc'[s] = "match" /\ cmd'[s] = k /\ todo'[s] = todo[s]
        /\ db' = db /\ deleted' = deleted
        /\ \A u \in Sessions \ {s} : Stays(u)
    <3> HIDE DEF row
    <3> QED
      BY <1>t, <2>1, <2>n, Types DEF Stays
  <2>3. todo'[s] = {}
    BY <1>o, <2>2 DEF LedgerInv, SessionInv, ReadInv
  <2>4. \A i \in Ids : Own(s, i)' <=> i = c
    BY <1>o, <2>2 DEF Own, Late, Creates
  <2>5. CommandInv(s)'
    <3>1. k.to # None => Present(db, k.to) \/ k.to \in deleted
      BY <1>o DEF LedgerInv, SessionInv, CommandInv
    <3> QED
      BY <1>2, <1>o, <2>2, <2>4, <2>r, <3>1 DEF CommandInv, Creates, Present
  <2>6. SessionInv(s)'
    BY <2>2, <2>3, <2>5 DEF SessionInv, ReadInv, WriteInv
  <2>7. pc'[s] \in Late
    BY <2>2 DEF Late
  <2>8. \A i \in Ids : lock'[i] = lock[i] \/ (lock[i] \in {Free, s} /\ lock'[i] \in {Free, s})
    BY <1>t, <2>1, <2>2
  <2> QED
    BY <2>2, <2>6, <2>7, <2>8, OwnStep
<1> QED
  BY <1>1, <1>2

(* What a session sees after its insert of a cancellation. *)
LEMMA InsertSeen ==
  ASSUME TypeInv, LedgerInv, NEW s \in Sessions, pc[s] \in {"match", "parents", "child", "body"},
         cmd[s].op \in Creates
  PROVE  LET c == cmd[s].id IN
         /\ cmd[s].op = "createCancellation" /\ c \in Cancellations /\ Own(s, c)
         /\ lock[c] = s /\ ~Present(db, c) /\ write[s][c] \in Row
         /\ write[s][c].parent = None
         /\ \A i \in Ids : i # c => write[s][i] = Keep
         /\ OwnView(s) \in Database /\ OwnView(s)[c] = write[s][c]
         /\ \A i \in Ids : i # c => OwnView(s)[i] = db[i]
         /\ AllGood(OwnView(s))
         /\ \A b \in Approvals : Children(OwnView(s), b) = Children(db, b)
<1> DEFINE c == cmd[s].id
           d == OwnView(s)
<1>1. cmd[s].op = "createCancellation" /\ c \in Cancellations /\ c \in Ids
  <2>1. cmd[s].op = "createCancellation"
    BY DEF LedgerInv, SessionInv, CommandInv, Creates
  <2> QED
    BY <2>1, Types, CommandType
<1>2. Own(s, c)
  BY DEF Own, Late
<1>3. /\ lock[c] = s /\ ~Present(db, c) /\ write[s][c] \in Row
      /\ write[s][c] = NewCancellation(cmd[s].units, cmd[s].cur, cmd[s].at)
      /\ \A i \in Ids : write[s][i] # Keep => Own(s, i)
  BY <1>1, <1>2 DEF LedgerInv, SessionInv, CommandInv
<1>4. write[s][c].parent = None
  BY <1>3 DEF NewCancellation
<1>5. \A i \in Ids : i # c => write[s][i] = Keep
  BY <1>3 DEF Own
<1>6. d[c] = write[s][c] /\ \A i \in Ids : i # c => d[i] = db[i]
  BY <1>1, <1>3, <1>5, RowAssumption DEF OwnView
<1>7. d \in Database
  <2>1. \A i \in Ids : d[i] \in Row \cup {Absent}
    BY <1>3, <1>6, Types DEF Database
  <2>2. d = [i \in Ids |-> d[i]]
    BY DEF OwnView
  <2> HIDE DEF d
  <2> QED
    BY <2>1, <2>2 DEF Database
<1> HIDE DEF d
<1>8. AllGood(d) /\ \A b \in Approvals : Children(d, b) = Children(db, b)
  <2>1. db \in Database /\ AllGood(db)
    BY Types DEF LedgerInv
  <2> HIDE DEF c
  <2> QED
    BY <1>1, <1>3, <1>4, <1>6, <2>1, InsertedGood
<1> QED
  BY <1>1, <1>2, <1>3, <1>4, <1>5, <1>6, <1>7, <1>8 DEF d

LEMMA MatchKeeps ==
  ASSUME TypeInv, LedgerInv, NEW s \in Sessions, MatchApproval(s)
  PROVE  LedgerInv'
<1> DEFINE c == cmd[s].id
<1>1. /\ pc[s] = "match" /\ db' = db /\ deleted' = deleted /\ lock' = lock
      /\ cmd'[s] = cmd[s] /\ write'[s] = write[s]
      /\ \A u \in Sessions \ {s} : Stays(u)
  BY Types DEF MatchApproval, Goto, Stays
<1>2. cmd[s].op \in Creates
  BY <1>1 DEF LedgerInv, SessionInv, CommandInv
<1>3. /\ cmd[s].op = "createCancellation" /\ c \in Cancellations /\ Own(s, c)
      /\ ~Present(db, c) /\ write[s][c] \in Row /\ write[s][c].parent = None
      /\ \A i \in Ids : i # c => write[s][i] = Keep
      /\ AllGood(OwnView(s))
  BY <1>1, <1>2, InsertSeen
<1>4. todo[s] = {}
  BY <1>1 DEF LedgerInv, SessionInv, ReadInv
<1>5. pc'[s] \in {"parents", "update"}
  BY Types DEF MatchApproval, Goto
<1>6. CommandInv(s)'
  <2>1. \A i \in Ids : Own(s, i)' <=> Own(s, i)
    BY <1>1, <1>5 DEF Own, Late
  <2> QED
    BY <1>1, <1>3, <1>5, <2>1 DEF LedgerInv, SessionInv, CommandInv, Present
<1>7. ReadInv(s)' /\ WriteInv(s)'
  <2>1. CASE Cardinality(Matches(s)) = 1
    <3>1. /\ seen'[s] = CHOOSE a \in Matches(s) : TRUE
          /\ todo'[s] = Matches(s) /\ pc'[s] = "parents"
      BY <2>1, Types DEF MatchApproval, Goto
    <3>2. Matches(s) # {}
      BY <2>1, FS_EmptySet
    <3>3. \A a \in Matches(s) : Present(db, a)
      BY DEF Matches, Candidates
    <3>4. seen'[s] \in Matches(s)
      BY <3>1, <3>2
    <3>5. \A p \in Chains(s)' : p = seen'[s]
      BY <1>1, <1>2, <1>3 DEF Chains
    <3> QED
      BY <1>1, <3>1, <3>3, <3>4, <3>5 DEF ReadInv, WriteInv, Present
  <2>2. CASE Cardinality(Matches(s)) # 1
    <3>1. pc'[s] = "update" /\ todo'[s] = {}
      BY <1>4, <2>2, Types DEF MatchApproval, Goto
    <3>2. OwnView(s)' = OwnView(s)
      BY <1>1, OwnViewKept
    <3>3. Own(s, c)'
      BY <1>1, <1>3, <3>1 DEF Own, Late
    <3>4. c \notin Approvals
      BY <1>3, ApprovalIsNone
    <3>5. \A i \in Ids : write[s][i] # Keep => i = c
      BY <1>3
    <3>6. WriteInv(s)'
      BY <1>1, <1>3, <3>1, <3>2, <3>3, <3>4, <3>5 DEF WriteInv, AllGood, Present
    <3> QED
      BY <3>1, <3>6 DEF ReadInv
  <2> QED
    BY <2>1, <2>2
<1>8. SessionInv(s)'
  BY <1>6, <1>7 DEF SessionInv
<1>9. pc'[s] \in Late
  BY <1>5 DEF Late
<1> QED
  BY <1>1, <1>8, <1>9, OwnStep

LEMMA LockUpdatedKeeps ==
  ASSUME TypeInv, LedgerInv, NEW s \in Sessions, LockUpdated(s)
  PROVE  LedgerInv'
<1> DEFINE i == Lowest(todo[s])
<1>1. /\ pc[s] = "update" /\ todo[s] # {} /\ Acquire(s, i)
      /\ todo'[s] = todo[s] \ {i} /\ db' = db /\ deleted' = deleted
      /\ cmd'[s] = cmd[s] /\ seen'[s] = seen[s] /\ write'[s] = write[s] /\ pc'[s] = pc[s]
      /\ \A u \in Sessions \ {s} : Stays(u)
  BY Types DEF LockUpdated, LockNext, Stays
<1>2. i \in todo[s] /\ i \in Ids
  BY <1>1, Types, LowestIs
<1> HIDE DEF i
<1>3. /\ \A j \in Ids : j # i => lock'[j] = lock[j]
      /\ \A j \in Ids : lock[j] = s => lock'[j] = s
      /\ \A j \in Ids : lock'[j] = lock[j] \/ (lock[j] \in {Free, s} /\ lock'[j] = s)
      /\ Present(db, i) => lock'[i] = s
      /\ ~Present(db, i) => lock' = lock
  BY <1>1, <1>2, Acquired
<1>4. \A j \in Ids : Own(s, j)' <=> Own(s, j)
  BY <1>1 DEF Own
<1>5. CommandInv(s)'
  BY <1>1, <1>3, <1>4 DEF LedgerInv, SessionInv, CommandInv, Present
<1>6. WriteInv(s)'
  <2>1. WriteInv(s)
    BY DEF LedgerInv, SessionInv
  <2>2. ASSUME NEW j \in Ids, write[s][j] # Keep
        PROVE  /\ Own(s, j)' \/ (Present(db, j) /\ (j \in todo'[s] \/ lock'[j] = s))
               /\ j \in Approvals => lock'[j] = s
               /\ j \in Cancellations /\ Present(db, j) =>
                    lock'[IF db[j].parent = None THEN j ELSE db[j].parent] = s
               /\ j \in Cancellations /\ write[s][j] \in Row /\ write[s][j].parent # None =>
                    lock'[write[s][j].parent] = s
    <3>1. Present(db, j) => db[j].parent = None \/ db[j].parent \in Ids
      BY Types DEF Row, Ids
    <3>2. write[s][j] \in Row => write[s][j].parent = None \/ write[s][j].parent \in Ids
      BY DEF Row, Ids
    <3> QED
      BY <1>1, <1>3, <1>4, <2>1, <2>2, <3>1, <3>2 DEF WriteInv
  <2>3. \A a \in Approvals : lock'[a] = s => lock[a] = s
    <3>1. i \in Approvals => lock[i] = s
      BY <1>1, <1>2, <2>1 DEF WriteInv
    <3> QED
      BY <1>3, <3>1, ApprovalIsNone
  <2>4. OwnView(s)' = OwnView(s)
    BY <1>1, OwnViewKept
  <2> QED
    BY <1>1, <2>1, <2>2, <2>3, <2>4 DEF WriteInv, Present
<1>7. SessionInv(s)'
  BY <1>1, <1>5, <1>6 DEF SessionInv, ReadInv
<1>8. pc'[s] \in Late
  BY <1>1 DEF Late
<1> QED
  BY <1>1, <1>3, <1>7, <1>8, OwnStep

(* What a body must plan, for its locks to cover it. *)
Covered(s, image, touched) ==
  /\ image \in Database /\ AllGood(image) /\ touched \subseteq Ids
  /\ \A i \in Ids \ touched : image[i] = OwnView(s)[i]
  /\ \A i \in touched : Own(s, i) \/ Present(db, i)
  /\ \A i \in touched : i \in Approvals => lock[i] = s
  /\ \A i \in touched : Present(db, i) /\ db[i].parent = None => lock[i] = s
  /\ \A b \in Approvals : \A i \in touched :
       i \in Children(db, b) \/ i \in Children(image, b) => lock[b] = s
  /\ \A i \in Ids : Own(s, i) => i \in touched /\ image[i] \in Row

LEMMA PrepareIfKeeps ==
  ASSUME TypeInv, LedgerInv, NEW s \in Sessions, pc[s] = "body", NEW ok, NEW image,
         NEW touched, PrepareIf(s, ok, image, touched), ok => Covered(s, image, touched)
  PROVE  LedgerInv'
<1>1. CASE ~ok
  BY <1>1, RollbackKeeps DEF PrepareIf
<1>2. CASE ok
  <2>1. /\ db' = db /\ deleted' = deleted /\ lock' = lock /\ pc'[s] = "update"
        /\ cmd'[s] = cmd[s] /\ todo'[s] = {i \in touched : lock[i] # s}
        /\ write'[s] = [i \in Ids |-> IF i \in touched THEN image[i] ELSE Keep]
        /\ \A u \in Sessions \ {s} : Stays(u)
    BY <1>2, Types DEF PrepareIf, Prepare, Stays
  <2>2. Covered(s, image, touched) /\ touched \subseteq Ids /\ image \in Database
    BY <1>2 DEF Covered
  <2>3. \A i \in Ids : write'[s][i] = IF i \in touched THEN image[i] ELSE Keep
    BY <2>1
  <2>4. \A i \in Ids : image[i] # Keep /\ (image[i] # Absent => image[i] \in Row)
    BY <2>2, RowAssumption DEF Database
  <2>5. \A i \in Ids : Own(s, i)' <=> Own(s, i)
    BY <2>1 DEF Own, Late
  <2>6. CommandInv(s)'
    BY <2>1, <2>2, <2>3, <2>5 DEF LedgerInv, SessionInv, CommandInv, Present, Covered
  <2>7. \A i \in Ids : OwnView(s)'[i] = image[i]
    <3>1. \A i \in Ids : i \notin touched => write[s][i] = Keep
      BY <2>2 DEF LedgerInv, SessionInv, CommandInv, Covered
    <3>2. \A i \in Ids : i \notin touched => image[i] = db[i]
      BY <2>2, <3>1 DEF Covered, OwnView
    <3> QED
      BY <2>1, <2>3, <2>4, <3>2 DEF OwnView
  <2>8. AllGood(OwnView(s)')
    BY <2>2, <2>7, SameGood DEF Covered
  <2>9. ASSUME NEW i \in Ids, write'[s][i] # Keep
        PROVE  /\ Own(s, i)' \/ (Present(db, i) /\ (i \in todo'[s] \/ lock[i] = s))
               /\ i \in Approvals => lock[i] = s
               /\ i \in Cancellations /\ Present(db, i) =>
                    lock[IF db[i].parent = None THEN i ELSE db[i].parent] = s
               /\ i \in Cancellations /\ write'[s][i] \in Row /\ write'[s][i].parent # None =>
                    lock[write'[s][i].parent] = s
    <3>1. i \in touched /\ write'[s][i] = image[i]
      BY <2>3, <2>9
    <3>2. ASSUME i \in Cancellations, Present(db, i)
          PROVE  lock[IF db[i].parent = None THEN i ELSE db[i].parent] = s
      <4>1. db[i].parent # None => db[i].parent \in Approvals /\ i \in Children(db, db[i].parent)
        BY <3>2, Types DEF Row, Children
      <4> QED
        BY <2>2, <3>1, <3>2, <4>1 DEF Covered
    <3>3. ASSUME i \in Cancellations, image[i] \in Row, image[i].parent # None
          PROVE  lock[image[i].parent] = s
      <4>1. image[i].parent \in Approvals /\ i \in Children(image, image[i].parent)
        BY <3>3, RowAssumption DEF Row, Children, Present
      <4> QED
        BY <2>2, <3>1, <4>1 DEF Covered
    <3> QED
      BY <2>1, <2>2, <2>5, <3>1, <3>2, <3>3 DEF Covered
  <2>10. \A i \in todo'[s] : write'[s][i] # Keep
    BY <2>1, <2>2, <2>3, <2>4
  <2>11. WriteInv(s)'
    BY <2>1, <2>8, <2>9, <2>10 DEF WriteInv, AllGood, Present
  <2>12. SessionInv(s)'
    BY <2>1, <2>6, <2>11 DEF SessionInv, ReadInv
  <2>13. pc'[s] \in Late
    BY <2>1 DEF Late
  <2> QED
    BY <2>1, <2>12, <2>13, OwnStep
<1> QED
  BY <1>1, <1>2

(* At its body a session holds the rows it will act on, if they are there. *)
LEMMA BodyHolds ==
  ASSUME TypeInv, LedgerInv, NEW s \in Sessions, pc[s] = "body"
  PROVE  /\ \A p \in Chains(s) : Present(db, p) => lock[p] = s
         /\ cmd[s].id \in Cancellations /\ Present(db, cmd[s].id) => lock[cmd[s].id] = s
         /\ cmd[s].op \notin Creates => \A i \in Ids : ~Own(s, i) /\ OwnView(s)[i] = db[i]
<1>1. todo[s] = {} /\ \A i \in deleted : ~Present(db, i)
  BY DEF LedgerInv, SessionInv, ReadInv, LockInv
<1>2. cmd[s].op \notin Creates => \A i \in Ids : ~Own(s, i) /\ write[s][i] = Keep
  BY NothingWritten
<1> QED
  BY <1>1, <1>2 DEF LedgerInv, SessionInv, ReadInv, OwnView

(* The bodies, one after another: their locks cover what they plan. *)
LEMMA LinkCovered ==
  ASSUME TypeInv, LedgerInv, NEW s \in Sessions, NEW d \in Database, AllGood(d),
         \A i \in Ids : d[i] = OwnView(s)[i],
         NEW c \in Cancellations, d[c] \in Row, NEW previous, d[c].parent = previous,
         NEW a, LinkOk(d, c, previous, a),
         \A i \in Ids : i # c => d[i] = db[i],
         \A b \in Approvals : Children(d, b) = Children(db, b),
         Own(s, c) \/ Present(db, c), \A i \in Ids : Own(s, i) => i = c,
         Present(db, c) => lock[c] = s, lock[a] = s, previous # None => lock[previous] = s
  PROVE  Covered(s, Linked(d, c, previous, a), LinkTouched(d, c, previous, a))
<1> DEFINE k == Claimed(d, c, a)
           image == Linked(d, c, previous, a)
           touched == LinkTouched(d, c, previous, a)
<1>1. /\ c \in Ids /\ a \in Approvals /\ a \in Ids /\ a \notin Cancellations /\ Present(d, a)
      /\ previous \in Approvals \cup {None}
  BY ApprovalIsNone DEF LinkOk, Ids, Row
<1>2. /\ Children(k, a) = Children(d, a) \cup {c}
      /\ \A b \in Approvals : b # a => Children(k, b) = Children(d, b) \ {c}
  BY <1>1, ClaimedLinks
<1>3. /\ AllGood(image) /\ \A i \in Ids \ touched : image[i] = d[i]
      /\ \A b : Children(image, b) = Children(k, b)
  BY <1>1, LinkedGood
<1>4. image \in Database /\ touched \subseteq Ids
  BY <1>1, LinkedType, LinkTouchedType
<1>5. ASSUME NEW i \in touched
      PROVE  \/ i = c \/ i = a \/ i \in Children(db, a)
             \/ previous # None /\ previous # a /\ (i = previous \/ i \in Children(db, previous))
  <2>1. \A p \in Abandoned(previous, a) : p = previous /\ p # None /\ p # a
    BY DEF Abandoned
  <2>2. previous # None /\ previous # a => Children(k, previous) \subseteq Children(db, previous)
    BY <1>1, <1>2
  <2>3. Children(k, a) = Children(db, a) \cup {c}
    BY <1>1, <1>2
  <2> HIDE DEF k
  <2> QED
    BY <2>1, <2>2, <2>3 DEF LinkTouched, k
<1>6. previous # None /\ previous # a => Present(d, previous)
  BY DEF LinkOk, Abandoned
<1> HIDE DEF image, touched, k
<1>7. \A b : \A i \in Children(db, b) : i \in Cancellations /\ Present(db, i) /\ db[i].parent = b
  BY DEF Children
<1>8. Present(db, a) /\ (previous # None /\ previous # a => Present(db, previous))
  BY <1>1, <1>6, ApprovalIsNone DEF Present
<1>9. \A i \in touched : Own(s, i) \/ Present(db, i)
  BY <1>5, <1>7, <1>8
<1>10. \A i \in touched : i \in Approvals => lock[i] = s
  BY <1>5, <1>7, ApprovalIsNone
<1>11. ASSUME NEW i \in touched, Present(db, i), db[i].parent = None PROVE lock[i] = s
  BY <1>1, <1>5, <1>7, <1>11, ApprovalIsNone
<1>12. ASSUME NEW b \in Approvals, NEW i \in touched, i \in Children(db, b) PROVE lock[b] = s
  <2>1. i \in Cancellations /\ db[i].parent = b /\ b # None /\ i # a
    BY <1>1, <1>7, <1>12, ApprovalIsNone
  <2>2. CASE i = c
    <3>1. d[c].parent = b
      BY <1>12, <2>2 DEF Children
    <3> QED
      BY <2>1, <3>1
  <2>3. CASE i # c
    BY <1>1, <1>5, <1>7, <2>1, <2>3, ApprovalIsNone
  <2> QED
    BY <2>2, <2>3
<1>13. ASSUME NEW b \in Approvals, NEW i \in touched, i \in Children(image, b) PROVE lock[b] = s
  <2>1. CASE b = a
    BY <2>1
  <2>2. CASE b # a
    <3>1. i \in Children(db, b)
      BY <1>2, <1>3, <1>13, <2>2
    <3> QED
      BY <3>1, <1>12
  <2> QED
    BY <2>1, <2>2
<1>14. c \in touched /\ image[c] \in Row
  <2>1. c \in Children(image, a)
    BY <1>2, <1>3
  <2> QED
    BY <1>1, <1>4, <2>1 DEF Children, Present, Database, LinkTouched, touched
<1>15. Covered(s, image, touched)
  BY <1>3, <1>4, <1>9, <1>10, <1>11, <1>12, <1>13, <1>14 DEF Covered
<1> QED
  BY <1>15 DEF image, touched

LEMMA LinkInsertedCovered ==
  ASSUME TypeInv, LedgerInv, NEW s \in Sessions, LinkInserted(s),
         LinkOk(OwnView(s), cmd[s].id, None, seen[s])
  PROVE  Covered(s, Linked(OwnView(s), cmd[s].id, None, seen[s]),
                 LinkTouched(OwnView(s), cmd[s].id, None, seen[s]))
<1> DEFINE c == cmd[s].id
           d == OwnView(s)
           a == seen[s]
           ok == LinkOk(d, c, None, a)
           image == Linked(d, c, None, a)
           touched == LinkTouched(d, c, None, a)
<1>1. pc[s] = "body" /\ cmd[s].op = "createCancellation" /\ cmd[s].op \in Creates
  BY DEF LinkInserted, At, Creates
<1>2. Covered(s, image, touched)
  <2>1. /\ c \in Cancellations /\ Own(s, c) /\ ~Present(db, c) /\ d[c] \in Row
        /\ d[c].parent = None /\ d \in Database /\ AllGood(d)
        /\ \A i \in Ids : i # c => d[i] = db[i]
        /\ \A b \in Approvals : Children(d, b) = Children(db, b)
    BY <1>1, InsertSeen
  <2>2. \A i \in Ids : Own(s, i) => i = c
    BY DEF Own
  <2>3. a \in Approvals /\ Present(db, a)
    <3>1. a \in Approvals /\ Present(d, a)
      BY DEF LinkOk
    <3> QED
      BY <2>1, <3>1, ApprovalIsNone DEF Present
  <2>4. lock[a] = s
    <3>1. a \in Chains(s)
      BY <1>1, <2>3 DEF Chains
    <3> QED
      BY <1>1, <2>3, <3>1, BodyHolds
  <2>5. LinkOk(d, c, None, a) /\ \A i \in Ids : d[i] = OwnView(s)[i]
    OBVIOUS
  <2> HIDE DEF c, d, a
  <2> QED
    BY <2>1, <2>2, <2>4, <2>5, LinkCovered
<1> QED
  BY <1>2

LEMMA LinkInsertedKeeps ==
  ASSUME TypeInv, LedgerInv, NEW s \in Sessions, LinkInserted(s)
  PROVE  LedgerInv'
<1> DEFINE c == cmd[s].id
           d == OwnView(s)
           a == seen[s]
           ok == LinkOk(d, c, None, a)
           image == Linked(d, c, None, a)
           touched == LinkTouched(d, c, None, a)
<1>1. pc[s] = "body" /\ cmd[s].op = "createCancellation" /\ cmd[s].op \in Creates
  BY DEF LinkInserted, At, Creates
<1>2. PrepareIf(s, ok, image, touched)
  BY Zenon DEF LinkInserted
<1>3. ok => Covered(s, image, touched)
  BY LinkInsertedCovered
<1> HIDE DEF ok, image, touched
<1> QED
  BY <1>1, <1>2, <1>3, PrepareIfKeeps

(* The parent of a cancellation that is still the one read is locked. *)
LEMMA ParentHeld ==
  ASSUME TypeInv, LedgerInv, NEW s \in Sessions, pc[s] = "body", Unchanged(s),
         cmd[s].op \notin {"amend", "recalculate"}
  PROVE  LET c == cmd[s].id IN
         /\ c \in Cancellations /\ c \in Ids /\ Present(db, c) /\ db[c] \in Row /\ lock[c] = s
         /\ seen[s] = db[c].parent /\ seen[s] \in Approvals \cup {None}
         /\ db[c].parent # None =>
              Present(db, db[c].parent) /\ lock[db[c].parent] = s /\ c \in Children(db, db[c].parent)
<1> DEFINE c == cmd[s].id
<1>1. c \in Cancellations /\ Present(db, c) /\ db[c].parent = seen[s]
  BY DEF Unchanged
<1>2. db[c] \in Row /\ c \in Ids
  BY <1>1, Types
<1>3. lock[c] = s
  BY <1>1, BodyHolds
<1>4. seen[s] \in Approvals \cup {None}
  BY <1>1, <1>2 DEF Row
<1>5. ASSUME seen[s] # None
      PROVE  Present(db, seen[s]) /\ lock[seen[s]] = s /\ c \in Children(db, seen[s])
  <2>1. seen[s] \in Approvals /\ c \in Children(db, seen[s])
    BY <1>1, <1>4, <1>5 DEF Children
  <2>2. Present(db, seen[s])
    BY <2>1 DEF LedgerInv, AllGood, Good, Sound
  <2>3. seen[s] \in Chains(s)
    BY <2>1 DEF Chains
  <2> QED
    BY <2>1, <2>2, <2>3, BodyHolds
<1> QED
  BY <1>1, <1>2, <1>3, <1>4, <1>5

LEMMA LinkCancellationCovered ==
  ASSUME TypeInv, LedgerInv, NEW s \in Sessions, LinkCancellation(s),
         Unchanged(s) /\ LinkOk(db, cmd[s].id, seen[s], cmd[s].to)
  PROVE  Covered(s, Linked(db, cmd[s].id, seen[s], cmd[s].to),
                 LinkTouched(db, cmd[s].id, seen[s], cmd[s].to))
<1> DEFINE k == cmd[s]
           c == k.id
           a == k.to
           ok == Unchanged(s) /\ LinkOk(db, c, seen[s], a)
           image == Linked(db, c, seen[s], a)
           touched == LinkTouched(db, c, seen[s], a)
<1>1. pc[s] = "body" /\ k.op = "link" /\ k.op \notin Creates
  BY DEF LinkCancellation, At, Creates
<1>2. Covered(s, image, touched)
  <2>1. /\ c \in Cancellations /\ c \in Ids /\ Present(db, c) /\ db[c] \in Row /\ lock[c] = s
        /\ db[c].parent = seen[s] /\ (seen[s] # None => lock[seen[s]] = s)
    BY <1>1, ParentHeld
  <2>2. a \in Approvals /\ Present(db, a)
    BY DEF LinkOk
  <2>3. lock[a] = s
    <3>1. a \in Chains(s)
      BY <1>1, <2>2 DEF Chains
    <3> QED
      BY <1>1, <2>2, <3>1, BodyHolds
  <2>4. \A i \in Ids : ~Own(s, i) /\ db[i] = OwnView(s)[i]
    BY <1>1, BodyHolds
  <2>5. db \in Database /\ AllGood(db) /\ LinkOk(db, c, seen[s], a)
    BY Types DEF LedgerInv
  <2> HIDE DEF c, a
  <2> QED
    BY <2>1, <2>3, <2>4, <2>5, LinkCovered
<1> QED
  BY <1>2

LEMMA LinkCancellationKeeps ==
  ASSUME TypeInv, LedgerInv, NEW s \in Sessions, LinkCancellation(s)
  PROVE  LedgerInv'
<1> DEFINE k == cmd[s]
           c == k.id
           a == k.to
           ok == Unchanged(s) /\ LinkOk(db, c, seen[s], a)
           image == Linked(db, c, seen[s], a)
           touched == LinkTouched(db, c, seen[s], a)
<1>1. pc[s] = "body" /\ k.op = "link" /\ k.op \notin Creates
  BY DEF LinkCancellation, At, Creates
<1>2. PrepareIf(s, ok, image, touched)
  BY Zenon DEF LinkCancellation
<1>3. ok => Covered(s, image, touched)
  BY LinkCancellationCovered
<1> HIDE DEF ok, image, touched
<1> QED
  BY <1>1, <1>2, <1>3, PrepareIfKeeps

LEMMA RestoreCovered ==
  ASSUME TypeInv, LedgerInv, NEW s \in Sessions, pc[s] = "body", Unchanged(s),
         cmd[s].op \notin {"amend", "recalculate"}, cmd[s].op \notin Creates,
         NEW e \in Database, \A i \in Ids : i # cmd[s].id => e[i] = db[i],
         \A b \in Approvals : cmd[s].id \notin Children(e, b),
         RestoreOk(db, e, cmd[s].id)
  PROVE  Covered(s, Restored(db, e, cmd[s].id), RestoreTouched(db, e, cmd[s].id))
<1> DEFINE c == cmd[s].id
           p == db[c].parent
           image == Restored(db, e, c)
           touched == RestoreTouched(db, e, c)
<1>1. /\ c \in Cancellations /\ c \in Ids /\ Present(db, c) /\ db[c] \in Row /\ lock[c] = s
      /\ p \in Approvals \cup {None}
      /\ p # None => Present(db, p) /\ lock[p] = s /\ c \in Children(db, p)
  BY ParentHeld
<1>2. \A i \in Ids : ~Own(s, i) /\ OwnView(s)[i] = db[i]
  BY BodyHolds
<1>3. db \in Database /\ AllGood(db)
  BY Types DEF LedgerInv
<1>4. /\ AllGood(image) /\ \A i \in Ids \ touched : image[i] = db[i]
      /\ \A b \in Approvals : Children(image, b) = Children(db, b) \ {c}
  <2>1. \A i \in Ids : i # c => e[i] = db[i]
    OBVIOUS
  <2>2. (\A b \in Approvals : c \notin Children(e, b)) /\ RestoreOk(db, e, c)
    OBVIOUS
  <2> HIDE DEF c
  <2> QED
    BY <1>1, <1>3, <2>1, <2>2, RestoredGood
<1>5. image \in Database /\ touched \subseteq Ids
  BY <1>1, <1>3, RestoredType, RestoreTouchedType
<1>6. p # None => Children(e, p) \subseteq Children(db, p)
  <2>1. \A i \in Cancellations : i # c => e[i] = db[i]
    BY DEF Ids
  <2> QED
    BY <1>1, <2>1 DEF Children, Present
<1>7. \A i \in touched : i = c \/ (p # None /\ (i = p \/ i \in Children(db, p)))
  BY <1>6 DEF RestoreTouched
<1>8. \A b : \A i \in Children(db, b) : i \in Cancellations /\ Present(db, i) /\ db[i].parent = b
  BY DEF Children
<1> HIDE DEF c, image, touched
<1>9. \A i \in touched : Present(db, i)
  BY <1>1, <1>7, <1>8
<1>10. \A i \in touched : i \in Approvals => lock[i] = s
  BY <1>1, <1>7, <1>8, ApprovalIsNone
<1>11. ASSUME NEW i \in touched, db[i].parent = None PROVE lock[i] = s
  BY <1>1, <1>7, <1>8, <1>11
<1>12. ASSUME NEW b \in Approvals, NEW i \in touched, i \in Children(db, b) PROVE lock[b] = s
  <2>1. i \in Cancellations /\ db[i].parent = b /\ b # None
    BY <1>8, <1>12, ApprovalIsNone
  <2> QED
    BY <1>1, <1>7, <1>8, <2>1, ApprovalIsNone
<1>13. \A b \in Approvals : \A i \in touched : i \in Children(image, b) => lock[b] = s
  BY <1>4, <1>12
<1>14. Covered(s, image, touched)
  BY <1>2, <1>4, <1>5, <1>9, <1>10, <1>11, <1>12, <1>13 DEF Covered
<1> QED
  BY <1>14 DEF image, touched, c

LEMMA UnlinkCancellationCovered ==
  ASSUME TypeInv, LedgerInv, NEW s \in Sessions, UnlinkCancellation(s),
         Unchanged(s) /\ seen[s] # None /\ RestoreOk(db, Detached(db, cmd[s].id), cmd[s].id)
  PROVE  Covered(s, Restored(db, Detached(db, cmd[s].id), cmd[s].id),
                 RestoreTouched(db, Detached(db, cmd[s].id), cmd[s].id))
<1> DEFINE c == cmd[s].id
           d == Detached(db, c)
           ok == Unchanged(s) /\ seen[s] # None /\ RestoreOk(db, d, c)
           image == Restored(db, d, c)
           touched == RestoreTouched(db, d, c)
<1>1. pc[s] = "body" /\ cmd[s].op = "unlink" /\ cmd[s].op \notin Creates
  BY DEF UnlinkCancellation, At, Creates
<1>2. Covered(s, image, touched)
  <2>1. c \in Cancellations /\ db[c] \in Row /\ db \in Database
    BY <1>1, ParentHeld, Types
  <2>2. /\ d \in Database /\ \A i \in Ids : i # c => d[i] = db[i]
        /\ \A b \in Approvals : c \notin Children(d, b)
    BY <2>1, DetachedLinks
  <2> QED
    BY <1>1, <2>2, RestoreCovered
<1> QED
  BY <1>2

LEMMA UnlinkCancellationKeeps ==
  ASSUME TypeInv, LedgerInv, NEW s \in Sessions, UnlinkCancellation(s)
  PROVE  LedgerInv'
<1> DEFINE c == cmd[s].id
           d == Detached(db, c)
           ok == Unchanged(s) /\ seen[s] # None /\ RestoreOk(db, d, c)
           image == Restored(db, d, c)
           touched == RestoreTouched(db, d, c)
<1>1. pc[s] = "body" /\ cmd[s].op = "unlink" /\ cmd[s].op \notin Creates
  BY DEF UnlinkCancellation, At, Creates
<1>2. PrepareIf(s, ok, image, touched)
  BY Zenon DEF UnlinkCancellation
<1>3. ok => Covered(s, image, touched)
  BY UnlinkCancellationCovered
<1> HIDE DEF ok, image, touched
<1> QED
  BY <1>1, <1>2, <1>3, PrepareIfKeeps

LEMMA RemoveCancellationCovered ==
  ASSUME TypeInv, LedgerInv, NEW s \in Sessions, RemoveCancellation(s),
         Unchanged(s) /\ RestoreOk(db, Erased(db, cmd[s].id), cmd[s].id)
  PROVE  Covered(s, Restored(db, Erased(db, cmd[s].id), cmd[s].id),
                 RestoreTouched(db, Erased(db, cmd[s].id), cmd[s].id))
<1> DEFINE c == cmd[s].id
           d == Erased(db, c)
           ok == Unchanged(s) /\ RestoreOk(db, d, c)
           image == Restored(db, d, c)
           touched == RestoreTouched(db, d, c)
<1>1. /\ pc[s] = "body" /\ cmd[s].op \in {"removeCancellation", "removeTransaction"}
      /\ cmd[s].op \notin Creates /\ cmd[s].op \notin {"amend", "recalculate"}
  BY DEF RemoveCancellation, At, Creates
<1>2. Covered(s, image, touched)
  <2>1. c \in Ids /\ db \in Database
    BY Types
  <2>2. /\ d \in Database /\ \A i \in Ids : i # c => d[i] = db[i]
        /\ \A b : c \notin Children(d, b)
    BY <2>1, ErasedLinks
  <2> QED
    BY <1>1, <2>2, RestoreCovered
<1> QED
  BY <1>2

LEMMA RemoveCancellationKeeps ==
  ASSUME TypeInv, LedgerInv, NEW s \in Sessions, RemoveCancellation(s)
  PROVE  LedgerInv'
<1> DEFINE c == cmd[s].id
           d == Erased(db, c)
           ok == Unchanged(s) /\ RestoreOk(db, d, c)
           image == Restored(db, d, c)
           touched == RestoreTouched(db, d, c)
<1>1. /\ pc[s] = "body" /\ cmd[s].op \in {"removeCancellation", "removeTransaction"}
      /\ cmd[s].op \notin Creates /\ cmd[s].op \notin {"amend", "recalculate"}
  BY DEF RemoveCancellation, At, Creates
<1>2. PrepareIf(s, ok, image, touched)
  BY Zenon DEF RemoveCancellation
<1>3. ok => Covered(s, image, touched)
  BY RemoveCancellationCovered
<1> HIDE DEF ok, image, touched
<1> QED
  BY <1>1, <1>2, <1>3, PrepareIfKeeps

LEMMA ChainCovered ==
  ASSUME TypeInv, LedgerInv, NEW s \in Sessions, pc[s] = "body", cmd[s].op \notin Creates,
         cmd[s].id \in Approvals, Present(db, cmd[s].id),
         NEW image \in Database, AllGood(image),
         NEW touched \in SUBSET ({cmd[s].id} \cup Children(db, cmd[s].id)),
         \A i \in Ids \ touched : image[i] = db[i],
         \A b \in Approvals : Children(image, b) \subseteq Children(db, b)
  PROVE  Covered(s, image, touched)
<1> DEFINE a == cmd[s].id
<1>1. a \in Ids /\ a \notin Cancellations /\ a # None /\ lock[a] = s
  <2>1. a \in Chains(s)
    BY DEF Chains
  <2> QED
    BY <2>1, BodyHolds, ApprovalIsNone
<1>2. \A i \in Ids : ~Own(s, i) /\ OwnView(s)[i] = db[i]
  BY BodyHolds
<1>3. \A b : \A i \in Children(db, b) :
        i \in Cancellations /\ i \in Ids /\ Present(db, i) /\ db[i].parent = b
  BY DEF Children, Ids
<1>4. touched \subseteq Ids /\ \A i \in touched : i = a \/ i \in Children(db, a)
  BY <1>1, <1>3
<1> HIDE DEF a
<1>5. \A i \in touched : Present(db, i)
  BY <1>3, <1>4 DEF a
<1>6. \A i \in touched : i \in Approvals => lock[i] = s
  BY <1>1, <1>3, <1>4, ApprovalIsNone
<1>7. ASSUME NEW i \in touched, db[i].parent = None PROVE lock[i] = s
  BY <1>1, <1>3, <1>4, <1>7
<1>8. ASSUME NEW b \in Approvals, NEW i \in touched, i \in Children(db, b) PROVE lock[b] = s
  BY <1>1, <1>3, <1>4, <1>8
<1> QED
  BY <1>2, <1>4, <1>5, <1>6, <1>7, <1>8 DEF Covered

LEMMA RemoveApprovalCovered ==
  ASSUME TypeInv, LedgerInv, NEW s \in Sessions, RemoveApproval(s),
         Present(db, cmd[s].id) /\ Children(db, cmd[s].id) = {}
  PROVE  Covered(s, Erased(db, cmd[s].id),
                 {cmd[s].id})
<1> DEFINE a == cmd[s].id
           ok == Present(db, a) /\ Children(db, a) = {}
           image == Erased(db, a)
<1>1. pc[s] = "body" /\ cmd[s].op \notin Creates /\ a \in Approvals /\ a \in Ids
  BY Types DEF RemoveApproval, At, Creates
<1>2. Covered(s, image, {a})
  <2>1. db \in Database /\ AllGood(db)
    BY Types DEF LedgerInv
  <2>2. AllGood(image)
    BY <1>1, <2>1, ErasedApprovalGood
  <2>3. image \in Database /\ \A i \in Ids : i # a => image[i] = db[i]
    BY <1>1, <2>1, ErasedLinks
  <2>4. \A b \in Approvals : Children(image, b) \subseteq Children(db, b)
    <3>1. \A i \in Cancellations : image[i] = db[i]
      BY <1>1, <2>3, ApprovalIsNone DEF Ids
    <3> HIDE DEF image
    <3> QED
      BY <3>1 DEF Children, Present
  <2>5. {a} \in SUBSET ({a} \cup Children(db, a))
    OBVIOUS
  <2> HIDE DEF image
  <2> QED
    BY <1>1, <2>2, <2>3, <2>4, <2>5, ChainCovered
<1> QED
  BY <1>2

LEMMA RemoveApprovalKeeps ==
  ASSUME TypeInv, LedgerInv, NEW s \in Sessions, RemoveApproval(s)
  PROVE  LedgerInv'
<1> DEFINE a == cmd[s].id
           ok == Present(db, a) /\ Children(db, a) = {}
           image == Erased(db, a)
<1>1. pc[s] = "body" /\ cmd[s].op \notin Creates /\ a \in Approvals /\ a \in Ids
  BY Types DEF RemoveApproval, At, Creates
<1>2. PrepareIf(s, ok, image, {a})
  BY Zenon DEF RemoveApproval
<1>3. ok => Covered(s, image, {a})
  BY RemoveApprovalCovered
<1> HIDE DEF ok, image
<1> QED
  BY <1>1, <1>2, <1>3, PrepareIfKeeps

LEMMA FlagApprovalCovered ==
  ASSUME TypeInv, LedgerInv, NEW s \in Sessions, FlagApproval(s),
         Present(db, cmd[s].id) /\ Reviewable(cmd[s].id, cmd[s].flag) /\ RecalcOk(db, cmd[s].id)
  PROVE  Covered(s, Recalculate(db, cmd[s].id, cmd[s].flag, FALSE),
                 {cmd[s].id})
<1> DEFINE k == cmd[s]
           a == k.id
           ok == Present(db, a) /\ Reviewable(a, k.flag) /\ RecalcOk(db, a)
           image == Recalculate(db, a, k.flag, FALSE)
<1>1. /\ pc[s] = "body" /\ cmd[s].op \notin Creates /\ a \in Approvals /\ a \in Ids
      /\ k.flag \in Flags \cup {NoFlag}
  BY Types, CommandType DEF FlagApproval, At, Creates
<1>2. Covered(s, image, {a})
  <2>1. db \in Database /\ AllGood(db)
    BY Types DEF LedgerInv
  <2>w. PICK w \in BOOLEAN : w = FALSE
    OBVIOUS
  <2>2. image = Recalculate(db, a, k.flag, w)
    BY <2>w
  <2>3. \A i \in Ids \ {a} : image[i] = db[i]
    BY DEF Recalculate, WriteChain
  <2>4. Sound(db, a) /\ \A c \in Children(db, a) : House[a] = House[c]
    BY <1>1, <2>1 DEF AllGood, Good, Sound
  <2>5. Present(db, a) /\ RecalcOk(db, a)
    OBVIOUS
  <2> DEFINE flag == k.flag
  <2>6. flag \in Flags \cup {NoFlag} /\ image = Recalculate(db, a, flag, w)
    BY <1>1, <2>2
  <2> HIDE DEF image, a, flag
  <2>7. /\ Good(image, a) /\ \A b \in Approvals \ {a} : Good(db, b) => Good(image, b)
        /\ \A b : Children(image, b) = Children(db, b)
    BY <1>1, <2>1, <2>4, <2>5, <2>6, RecalculatedGood
  <2>8. AllGood(image)
    BY <2>1, <2>7 DEF AllGood
  <2>9. image \in Database
    BY <1>1, <2>1, <2>5, <2>6, RecalculateType
  <2>10. {a} \in SUBSET ({a} \cup Children(db, a))
    OBVIOUS
  <2> QED
    BY <1>1, <2>3, <2>5, <2>7, <2>8, <2>9, <2>10, ChainCovered DEF a
<1> QED
  BY <1>2

LEMMA FlagApprovalKeeps ==
  ASSUME TypeInv, LedgerInv, NEW s \in Sessions, FlagApproval(s)
  PROVE  LedgerInv'
<1> DEFINE k == cmd[s]
           a == k.id
           ok == Present(db, a) /\ Reviewable(a, k.flag) /\ RecalcOk(db, a)
           image == Recalculate(db, a, k.flag, FALSE)
<1>1. /\ pc[s] = "body" /\ cmd[s].op \notin Creates /\ a \in Approvals /\ a \in Ids
      /\ k.flag \in Flags \cup {NoFlag}
  BY Types, CommandType DEF FlagApproval, At, Creates
<1>2. PrepareIf(s, ok, image, {a})
  BY Zenon DEF FlagApproval
<1>3. ok => Covered(s, image, {a})
  BY FlagApprovalCovered, Zenon
<1> HIDE DEF ok, image
<1> QED
  BY <1>1, <1>2, <1>3, PrepareIfKeeps

LEMMA AmendApprovalCovered ==
  ASSUME TypeInv, LedgerInv, NEW s \in Sessions, AmendApproval(s),
         Present(db, cmd[s].id) /\ cmd[s].id \in Approvals /\ AmendOk(db, cmd[s])
  PROVE  Covered(s, Amended(db, cmd[s]),
                 {cmd[s].id} \cup Children(db, cmd[s].id))
<1> DEFINE k == cmd[s]
           ok == Present(db, k.id) /\ k.id \in Approvals /\ AmendOk(db, k)
           image == Amended(db, k)
           touched == {k.id} \cup Children(db, k.id)
<1>1. /\ pc[s] = "body" /\ cmd[s].op \notin Creates /\ k \in Commands
  BY Types DEF AmendApproval, At, Creates
<1>2. Covered(s, image, touched)
  <2>1. db \in Database /\ AllGood(db) /\ db[k.id] \in Row
    BY Types DEF LedgerInv
  <2>2. /\ AllGood(image) /\ \A b : Children(image, b) = Children(db, b)
        /\ \A i \in Ids : i # k.id /\ i \notin Children(db, k.id) => image[i] = db[i]
    BY <1>1, <2>1, AmendedGood
  <2>3. image \in Database
    BY <1>1, <2>1, AmendedType
  <2>4. touched \in SUBSET ({k.id} \cup Children(db, k.id))
    OBVIOUS
  <2>5. k.id \in Approvals /\ Present(db, k.id)
    OBVIOUS
  <2>6. \A i \in Ids \ touched : image[i] = db[i]
    BY <2>2
  <2> HIDE DEF image, touched
  <2> QED
    BY <1>1, <2>2, <2>3, <2>4, <2>5, <2>6, ChainCovered
<1> QED
  BY <1>2

LEMMA AmendApprovalKeeps ==
  ASSUME TypeInv, LedgerInv, NEW s \in Sessions, AmendApproval(s)
  PROVE  LedgerInv'
<1> DEFINE k == cmd[s]
           ok == Present(db, k.id) /\ k.id \in Approvals /\ AmendOk(db, k)
           image == Amended(db, k)
           touched == {k.id} \cup Children(db, k.id)
<1>1. /\ pc[s] = "body" /\ cmd[s].op \notin Creates /\ k \in Commands
  BY Types DEF AmendApproval, At, Creates
<1>2. PrepareIf(s, ok, image, touched)
  BY Zenon DEF AmendApproval
<1>3. ok => Covered(s, image, touched)
  BY AmendApprovalCovered
<1> HIDE DEF ok, image, touched
<1> QED
  BY <1>1, <1>2, <1>3, PrepareIfKeeps

LEMMA RecalculateChainCovered ==
  ASSUME TypeInv, LedgerInv, NEW s \in Sessions, RecalculateChain(s),
         Present(db, cmd[s].id) /\ cmd[s].id \in Approvals /\ RecalcOk(db, cmd[s].id)
  PROVE  Covered(s, Recalculated(db, cmd[s].id),
                 {cmd[s].id} \cup Children(db, cmd[s].id))
<1> DEFINE a == cmd[s].id
           ok == Present(db, a) /\ a \in Approvals /\ RecalcOk(db, a)
           image == Recalculated(db, a)
           touched == {a} \cup Children(db, a)
<1>1. pc[s] = "body" /\ cmd[s].op \notin Creates /\ a \in Ids
  BY Types DEF RecalculateChain, At, Creates
<1>2. Covered(s, image, touched)
  <2>1. db \in Database /\ AllGood(db)
    BY Types DEF LedgerInv
  <2>2. a \in Approvals /\ Present(db, a) /\ RecalcOk(db, a)
    OBVIOUS
  <2>3. \A c \in Children(db, a) : House[a] = House[c]
    BY <2>1, <2>2 DEF AllGood, Good, Sound
  <2>4. /\ Good(image, a) /\ \A b \in Approvals \ {a} : Good(db, b) => Good(image, b)
        /\ \A i \in Ids : i # a /\ i \notin Children(db, a) => image[i] = db[i]
        /\ \A b : Children(image, b) = Children(db, b)
    <3> HIDE DEF a
    <3> QED
      BY <2>1, <2>2, <2>3, RecalculatedSelf
  <2>5. AllGood(image)
    BY <2>1, <2>4 DEF AllGood
  <2>6. image \in Database
    BY <1>1, <2>1, <2>2, RecalculatedType
  <2>7. touched \in SUBSET ({a} \cup Children(db, a)) /\ \A i \in Ids \ touched : image[i] = db[i]
    BY <2>4
  <2> HIDE DEF image, touched
  <2> QED
    BY <1>1, <2>2, <2>4, <2>5, <2>6, <2>7, ChainCovered
<1> QED
  BY <1>2

LEMMA RecalculateChainKeeps ==
  ASSUME TypeInv, LedgerInv, NEW s \in Sessions, RecalculateChain(s)
  PROVE  LedgerInv'
<1> DEFINE a == cmd[s].id
           ok == Present(db, a) /\ a \in Approvals /\ RecalcOk(db, a)
           image == Recalculated(db, a)
           touched == {a} \cup Children(db, a)
<1>1. pc[s] = "body" /\ cmd[s].op \notin Creates /\ a \in Ids
  BY Types DEF RecalculateChain, At, Creates
<1>2. PrepareIf(s, ok, image, touched)
  BY Zenon DEF RecalculateChain
<1>3. ok => Covered(s, image, touched)
  BY RecalculateChainCovered
<1> HIDE DEF ok, image, touched
<1> QED
  BY <1>1, <1>2, <1>3, PrepareIfKeeps

LEMMA FlagCancellationCovered ==
  ASSUME TypeInv, LedgerInv, NEW s \in Sessions, FlagCancellation(s),
         Unchanged(s) /\ Reviewable(cmd[s].id, cmd[s].flag)
  PROVE  Covered(s, Flagged(db, cmd[s].id, cmd[s].flag),
                 {cmd[s].id})
<1> DEFINE k == cmd[s]
           c == k.id
           ok == Unchanged(s) /\ Reviewable(c, k.flag)
           image == Flagged(db, c, k.flag)
<1>1. /\ pc[s] = "body" /\ cmd[s].op \notin Creates /\ c \in Ids
      /\ cmd[s].op \notin {"amend", "recalculate"} /\ k.flag \in Flags \cup {NoFlag}
  BY Types, CommandType DEF FlagCancellation, At, Creates
<1>2. Covered(s, image, {c})
  <2>1. /\ c \in Cancellations /\ Present(db, c) /\ db[c] \in Row /\ lock[c] = s
        /\ (db[c].parent # None => lock[db[c].parent] = s)
    BY <1>1, ParentHeld
  <2>2. db \in Database /\ AllGood(db)
    BY Types DEF LedgerInv
  <2>3. AllGood(image) /\ (\A i \in Ids : i # c => image[i] = db[i]) /\ image[c].parent = db[c].parent
    BY <1>1, <2>1, <2>2, FlaggedGood
  <2>4. image \in Database
    BY <1>1, <2>1, <2>2, FlaggedType
  <2>5. \A i \in Ids : ~Own(s, i) /\ OwnView(s)[i] = db[i]
    BY <1>1, BodyHolds
  <2>6. c \notin Approvals
    BY <2>1, ApprovalIsNone
  <2>7. \A b \in Approvals : c \in Children(db, b) \/ c \in Children(image, b) => lock[b] = s
    BY <2>1, <2>3, ApprovalIsNone DEF Children
  <2> HIDE DEF image, c
  <2> QED
    BY <1>1, <2>1, <2>3, <2>4, <2>5, <2>6, <2>7 DEF Covered
<1> QED
  BY <1>2

LEMMA FlagCancellationKeeps ==
  ASSUME TypeInv, LedgerInv, NEW s \in Sessions, FlagCancellation(s)
  PROVE  LedgerInv'
<1> DEFINE k == cmd[s]
           c == k.id
           ok == Unchanged(s) /\ Reviewable(c, k.flag)
           image == Flagged(db, c, k.flag)
<1>1. /\ pc[s] = "body" /\ cmd[s].op \notin Creates /\ c \in Ids
      /\ cmd[s].op \notin {"amend", "recalculate"} /\ k.flag \in Flags \cup {NoFlag}
  BY Types, CommandType DEF FlagCancellation, At, Creates
<1>2. PrepareIf(s, ok, image, {c})
  BY Zenon DEF FlagCancellation
<1>3. ok => Covered(s, image, {c})
  BY FlagCancellationCovered
<1> HIDE DEF ok, image
<1> QED
  BY <1>1, <1>2, <1>3, PrepareIfKeeps

-----------------------------------------------------------------------------
(* A commit: the session holds every row it writes, and whoever holds an    *)
(* approval that it does not hold sees its chain unchanged.                 *)
LEMMA CommitStep ==
  ASSUME TypeInv, LedgerInv, NEW s \in Sessions, Commit(s)
  PROVE  /\ pc'[s] = "idle" /\ write'[s] = NoWrites /\ todo'[s] = {}
         /\ \A u \in Sessions \ {s} : Stays(u)
         /\ \A i \in Ids : write[s][i] # Keep =>
              /\ lock[i] = s /\ db'[i] = write[s][i]
              /\ Present(db, i) \/ Own(s, i)
         /\ \A i \in Ids : write[s][i] = Keep => db'[i] = db[i]
         /\ \A i \in Ids : db'[i] = OwnView(s)[i]
         /\ \A i \in Ids : lock'[i] = IF lock[i] = s THEN Free ELSE lock[i]
         /\ deleted' = deleted \cup {i \in Ids : write[s][i] = Absent}
<1>1. /\ pc[s] = "update" /\ todo[s] = {}
      /\ pc'[s] = "idle" /\ write'[s] = NoWrites /\ todo'[s] = {}
      /\ \A u \in Sessions \ {s} : Stays(u)
      /\ \A i \in Ids : lock'[i] = IF lock[i] = s THEN Free ELSE lock[i]
  BY Types DEF Commit, Close, Stays
<1>2. ASSUME NEW i \in Ids, write[s][i] # Keep
      PROVE  lock[i] = s /\ (Present(db, i) \/ Own(s, i)) /\ Effective(s, i)
  <2>1. Own(s, i) \/ (Present(db, i) /\ lock[i] = s)
    BY <1>1, <1>2 DEF LedgerInv, SessionInv, WriteInv
  <2>2. Own(s, i) => lock[i] = s
    BY DEF LedgerInv, SessionInv, CommandInv
  <2> QED
    BY <1>2, <2>1, <2>2 DEF Effective, Own
<1>3. \A i \in Ids : Effective(s, i) <=> write[s][i] # Keep
  BY <1>2 DEF Effective
<1>4. \A i \in Ids : db'[i] = IF write[s][i] = Keep THEN db[i] ELSE write[s][i]
  BY <1>3 DEF Commit
<1>5. deleted' = deleted \cup {i \in Ids : write[s][i] = Absent}
  BY <1>3, RowAssumption DEF Commit
<1> QED
  BY <1>1, <1>2, <1>4, <1>5 DEF OwnView

LEMMA CommitElsewhere ==
  ASSUME TypeInv, LedgerInv, NEW s \in Sessions, Commit(s),
         NEW a \in Approvals, lock[a] # s
  PROVE  Alike(db, db', a)
<1>1. pc[s] = "update" /\ a \in Ids /\ a # None
  BY ApprovalIsNone DEF Commit
<1>2. /\ \A i \in Ids : write[s][i] # Keep => db'[i] = write[s][i]
      /\ \A i \in Ids : write[s][i] = Keep => db'[i] = db[i]
      /\ write[s][a] = Keep
  BY <1>1, CommitStep
<1>3. ASSUME NEW c \in Cancellations, c \in Children(db, a) \/ c \in Children(db', a)
      PROVE  write[s][c] = Keep
  <2>1. c \in Ids
    BY DEF Ids
  <2>2. CASE c \in Children(db, a)
    <3>1. Present(db, c) /\ db[c].parent = a
      BY <2>2 DEF Children
    <3> QED
      BY <1>1, <2>1, <3>1 DEF LedgerInv, SessionInv, WriteInv
  <2>3. CASE c \in Children(db', a)
    <3>1. SUFFICES ASSUME write[s][c] # Keep PROVE FALSE
      OBVIOUS
    <3>2. db'[c] = write[s][c] /\ Present(db', c) /\ db'[c].parent = a
      BY <1>2, <2>1, <2>3, <3>1 DEF Children
    <3>3. write[s][c] \in Row
      BY <2>1, <3>1, <3>2, Types DEF Present
    <3> QED
      BY <1>1, <2>1, <3>1, <3>2, <3>3 DEF LedgerInv, SessionInv, WriteInv
  <2> QED
    BY <1>3, <2>2, <2>3
<1>4. \A c \in Cancellations : c \in Children(db, a) \/ c \in Children(db', a) =>
        db'[c] = db[c]
  BY <1>2, <1>3 DEF Ids
<1>5. Children(db', a) = Children(db, a)
  BY <1>4 DEF Children, Present
<1>6. \A c \in Children(db, a) : db'[c] = db[c]
  BY <1>4 DEF Children
<1> QED
  BY <1>1, <1>2, <1>5, <1>6 DEF Alike

LEMMA CommitGood ==
  ASSUME TypeInv, LedgerInv, NEW s \in Sessions, Commit(s)
  PROVE  AllGood(db')
<1> SUFFICES ASSUME NEW a \in Approvals PROVE Good(db', a)
  BY DEF AllGood
<1>1. CASE lock[a] = s
  <2>1. Good(OwnView(s), a)
    BY <1>1 DEF Commit, LedgerInv, SessionInv, WriteInv
  <2>2. \A i \in Ids : db'[i] = OwnView(s)[i]
    BY CommitStep
  <2> QED
    BY <2>1, <2>2, SameGood
<1>2. CASE lock[a] # s
  BY <1>2, CommitElsewhere, AlikeGood DEF LedgerInv, AllGood
<1> QED
  BY <1>1, <1>2

LEMMA CommitLocks ==
  ASSUME TypeInv, LedgerInv, NEW s \in Sessions, Commit(s)
  PROVE  LockInv'
<1>1. /\ pc'[s] = "idle"
      /\ \A u \in Sessions \ {s} : Stays(u)
      /\ \A i \in Ids : write[s][i] # Keep =>
           /\ db'[i] = write[s][i]
           /\ Present(db, i) \/ Own(s, i)
      /\ \A i \in Ids : write[s][i] = Keep => db'[i] = db[i]
      /\ \A i \in Ids : lock'[i] = IF lock[i] = s THEN Free ELSE lock[i]
      /\ deleted' = deleted \cup {i \in Ids : write[s][i] = Absent}
  BY CommitStep
<1>2. ASSUME NEW i \in deleted' PROVE ~Present(db', i)
  <2>1. CASE i \in deleted
    <3>1. i \in Ids /\ ~Present(db, i) /\ ~Own(s, i)
      BY <2>1, Types DEF LedgerInv, LockInv, SessionInv, CommandInv
    <3> QED
      BY <1>1, <3>1 DEF Present
  <2>2. CASE i \in Ids /\ write[s][i] = Absent
    BY <1>1, <2>2, RowAssumption DEF Present
  <2> QED
    BY <1>1, <1>2, <2>1, <2>2
<1>3. ASSUME NEW i \in Ids, lock'[i] # Free PROVE pc'[lock'[i]] \in Late
  <2>1. lock'[i] = lock[i] /\ lock[i] \in Sessions \ {s}
    BY <1>1, <1>3, Types
  <2> QED
    BY <1>1, <1>3, <2>1 DEF LedgerInv, LockInv, Stays
<1> QED
  BY <1>2, <1>3 DEF LockInv

LEMMA CommitOthers ==
  ASSUME TypeInv, LedgerInv, NEW s \in Sessions, Commit(s), NEW u \in Sessions \ {s}
  PROVE  SessionInv(u)'
<1>1. /\ Stays(u) /\ SessionInv(u) /\ SessionInv(s) /\ pc[s] = "update"
      /\ \A i \in Ids : write[s][i] # Keep => lock[i] = s
      /\ \A i \in Ids : write[s][i] = Keep => db'[i] = db[i]
      /\ \A i \in Ids : lock'[i] = IF lock[i] = s THEN Free ELSE lock[i]
      /\ deleted' = deleted \cup {i \in Ids : write[s][i] = Absent}
  BY CommitStep DEF LedgerInv, Commit
<1>2. \A i \in Ids : (lock'[i] = u) <=> (lock[i] = u)
  BY <1>1, SessionAssumption
<1>3. \A i \in Ids : lock[i] = u => write[s][i] = Keep /\ db'[i] = db[i]
  BY <1>1
<1>4. \A i \in Ids : Present(db, i) => Present(db', i) \/ i \in deleted'
  <2>1. ASSUME NEW i \in Ids, Present(db, i), ~Present(db', i)
        PROVE  write[s][i] = Absent
    BY <1>1, <2>1, CommitStep DEF Present
  <2> QED
    BY <1>1, <2>1
<1>5. deleted \subseteq deleted' /\ \A i \in Ids : lock[i] = u /\ i \in deleted' => i \in deleted
  BY <1>1, <1>3, RowAssumption
<1>6. \A i \in Ids : Own(u, i)' <=> Own(u, i)
  BY <1>1 DEF Own, Stays
<1>t. cmd[u].id \in Ids /\ cmd[u].to \in Ids \cup {None}
  BY Types
<1>7. CommandInv(u)'
  <2>1. ASSUME NEW i \in Ids, Own(u, i)
        PROVE  /\ lock'[i] = u /\ ~Present(db', i) /\ i \notin deleted' /\ write'[u][i] \in Row
               /\ pc[u] # "update" =>
                    write[u][i] = NewCancellation(cmd[u].units, cmd[u].cur, cmd[u].at)
    BY <1>1, <1>2, <1>3, <1>5, <2>1 DEF SessionInv, CommandInv, Present, Stays
  <2>2. /\ pc[u] # "idle" /\ cmd[u].op \notin Creates =>
             Present(db', cmd[u].id) \/ cmd[u].id \in deleted'
        /\ pc[u] # "idle" /\ cmd[u].to # None =>
             Present(db', cmd[u].to) \/ cmd[u].to \in deleted'
    BY <1>1, <1>4, <1>5, <1>t DEF SessionInv, CommandInv
  <2> QED
    BY <1>1, <1>6, <2>1, <2>2 DEF SessionInv, CommandInv, Stays
<1>8. ReadInv(u)'
  <2>1. Chains(u)' = Chains(u) /\ \A p \in Chains(u) : p \in Ids
    BY <1>1, ApprovalIsNone DEF Chains, Stays
  <2>2. ASSUME NEW p \in Chains(u), pc[u] \in {"parents", "child", "body"}
        PROVE  (p \in todo[u] /\ Present(db', p)) \/ lock'[p] = u \/ p \in deleted'
    <3>1. (p \in todo[u] /\ Present(db, p)) \/ lock[p] = u \/ p \in deleted
      BY <1>1, <2>2 DEF SessionInv, ReadInv
    <3> QED
      BY <1>2, <1>4, <1>5, <2>1, <3>1
  <2>3. pc[u] = "body" /\ cmd[u].id \in Cancellations =>
          lock'[cmd[u].id] = u \/ cmd[u].id \in deleted'
    BY <1>1, <1>2, <1>5, <1>t DEF SessionInv, ReadInv
  <2> QED
    BY <1>1, <2>1, <2>2, <2>3 DEF SessionInv, ReadInv, Stays
<1>9. WriteInv(u)'
  <2> SUFFICES ASSUME pc[u] = "update" PROVE WriteInv(u)'
    BY <1>1 DEF WriteInv, Stays
  <2>1. ASSUME NEW i \in Ids, write[u][i] # Keep PROVE write[s][i] = Keep
    <3> SUFFICES ASSUME write[s][i] # Keep PROVE FALSE
      OBVIOUS
    <3>1. lock[i] = s
      BY <1>1
    <3>2. ~Own(u, i)
      BY <1>1, <3>1 DEF SessionInv, CommandInv
    <3>3. Present(db, i)
      BY <1>1, <2>1, <3>2 DEF SessionInv, WriteInv
    <3>4. i \notin Approvals
      BY <1>1, <2>1, <3>1 DEF SessionInv, WriteInv
    <3>5. i \in Cancellations
      BY <3>4 DEF Ids
    <3>6. lock[IF db[i].parent = None THEN i ELSE db[i].parent] = u
      BY <1>1, <2>1, <3>3, <3>5 DEF SessionInv, WriteInv
    <3>7. lock[IF db[i].parent = None THEN i ELSE db[i].parent] = s
      BY <1>1, <3>3, <3>5 DEF SessionInv, WriteInv
    <3> QED
      BY <3>6, <3>7
  <2>2. ASSUME NEW i \in Ids, write[u][i] # Keep
        PROVE  /\ Own(u, i)' \/ (Present(db', i) /\ (i \in todo[u] \/ lock'[i] = u))
               /\ i \in Approvals => lock'[i] = u
               /\ i \in Cancellations /\ Present(db', i) =>
                    lock'[IF db'[i].parent = None THEN i ELSE db'[i].parent] = u
               /\ i \in Cancellations /\ write[u][i] \in Row /\ write[u][i].parent # None =>
                    lock'[write[u][i].parent] = u
    <3>1. db'[i] = db[i]
      BY <1>1, <2>1, <2>2
    <3>2. Present(db, i) => db[i].parent = None \/ db[i].parent \in Ids
      BY Types DEF Row, Ids
    <3>3. write[u][i] \in Row => write[u][i].parent = None \/ write[u][i].parent \in Ids
      BY DEF Row, Ids
    <3>4. /\ Own(u, i) \/ (Present(db, i) /\ (i \in todo[u] \/ lock[i] = u))
          /\ i \in Approvals => lock[i] = u
          /\ i \in Cancellations /\ Present(db, i) =>
               lock[IF db[i].parent = None THEN i ELSE db[i].parent] = u
          /\ i \in Cancellations /\ write[u][i] \in Row /\ write[u][i].parent # None =>
               lock[write[u][i].parent] = u
      BY <1>1, <2>2 DEF SessionInv, WriteInv
    <3> QED
      BY <1>2, <1>6, <3>1, <3>2, <3>3, <3>4 DEF Present
  <2>3. ASSUME NEW a \in Approvals, lock'[a] = u PROVE Good(OwnView(u)', a)
    <3> DEFINE d == OwnView(u)
               e == OwnView(u)'
    <3>1. a \in Ids /\ lock[a] = u /\ lock[a] # s
      BY <1>2, <2>3, ApprovalIsNone
    <3>2. Alike(db, db', a)
      BY <3>1, CommitElsewhere
    <3>3. /\ \A i \in Ids : d[i] = IF write[u][i] = Keep THEN db[i] ELSE write[u][i]
          /\ \A i \in Ids : e[i] = IF write[u][i] = Keep THEN db'[i] ELSE write[u][i]
      BY <1>1 DEF OwnView, Stays
    <3>4. Good(d, a)
      BY <1>1, <3>1 DEF SessionInv, WriteInv
    <3> HIDE DEF d, e
    <3>5. e[a] = d[a]
      BY <3>1, <3>2, <3>3 DEF Alike
    <3>6. Children(e, a) = Children(d, a)
      <4>1. ASSUME NEW c \in Cancellations PROVE c \in Children(e, a) <=> c \in Children(d, a)
        <5>1. c \in Ids
          BY DEF Ids
        <5>2. CASE write[u][c] = Keep
          <6>1. c \in Children(e, a) <=> c \in Children(db', a)
            BY <3>3, <5>1, <5>2 DEF Children, Present
          <6>2. c \in Children(d, a) <=> c \in Children(db, a)
            BY <3>3, <5>1, <5>2 DEF Children, Present
          <6> QED
            BY <3>2, <6>1, <6>2 DEF Alike
        <5>3. CASE write[u][c] # Keep
          BY <3>3, <5>1, <5>3 DEF Children, Present
        <5> QED
          BY <5>2, <5>3
      <4> QED
        BY <4>1 DEF Children
    <3>7. ASSUME NEW c \in Children(d, a) PROVE e[c] = d[c]
      <4>1. c \in Ids /\ c \in Cancellations
        BY DEF Children, Ids
      <4>2. CASE write[u][c] = Keep
        <5>1. c \in Children(db, a)
          BY <3>3, <4>1, <4>2 DEF Children, Present
        <5> QED
          BY <3>2, <3>3, <4>1, <4>2, <5>1 DEF Alike
      <4>3. CASE write[u][c] # Keep
        BY <3>3, <4>1, <4>3
      <4> QED
        BY <4>2, <4>3
    <3>8. Good(e, a)
      BY <3>4, <3>5, <3>6, <3>7, AlikeGood DEF Alike
    <3> QED
      BY <3>8 DEF e
  <2>4. \A i \in todo[u] : write[u][i] # Keep
    BY <1>1 DEF SessionInv, WriteInv
  <2> QED
    BY <1>1, <2>2, <2>3, <2>4 DEF WriteInv, Stays
<1> QED
  BY <1>7, <1>8, <1>9 DEF SessionInv

LEMMA CommitKeeps ==
  ASSUME TypeInv, LedgerInv, NEW s \in Sessions, Commit(s)
  PROVE  LedgerInv'
<1>1. pc'[s] = "idle" /\ write'[s] = NoWrites /\ todo'[s] = {}
  BY CommitStep
<1>2. SessionInv(s)'
  <2>1. \A i \in Ids : ~Own(s, i)' /\ write'[s][i] = Keep
    BY <1>1 DEF Own, Late, NoWrites
  <2> QED
    BY <1>1, <2>1 DEF SessionInv, CommandInv, ReadInv, WriteInv
<1> QED
  BY <1>2, CommitGood, CommitLocks, CommitOthers DEF LedgerInv

LEMMA InitLedger == Init => LedgerInv
<1> SUFFICES ASSUME Init PROVE LedgerInv
  OBVIOUS
<1>1. /\ \A i \in Ids : ~Present(db, i) /\ lock[i] = Free
      /\ deleted = {}
      /\ \A s \in Sessions : pc[s] = "idle" /\ todo[s] = {} /\ write[s] = NoWrites
  BY DEF Init, Present
<1>2. AllGood(db)
  BY <1>1, ApprovalIsNone DEF AllGood, Good, Sound, Children, Ids
<1>3. ASSUME NEW s \in Sessions PROVE SessionInv(s)
  <2>1. \A i \in Ids : ~Own(s, i) /\ write[s][i] = Keep
    BY <1>1 DEF Own, Late, NoWrites
  <2> QED
    BY <1>1, <2>1 DEF SessionInv, CommandInv, ReadInv, WriteInv
<1> QED
  BY <1>1, <1>2, <1>3 DEF LedgerInv, LockInv

LEMMA StutterKeeps ==
  ASSUME TypeInv, LedgerInv, UNCHANGED vars PROVE LedgerInv'
<1>1. /\ db' = db /\ deleted' = deleted /\ lock' = lock /\ pc' = pc
      /\ \A u \in Sessions : Stays(u)
  BY DEF vars, Stays
<1>2. \A u \in Sessions : SessionInv(u)'
  BY <1>1, SessionKept DEF LedgerInv
<1> QED
  BY <1>1, <1>2 DEF LedgerInv, LockInv, Present

LEMMA NextLedger == TypeInv /\ LedgerInv /\ [Next]_vars => LedgerInv'
<1> SUFFICES ASSUME TypeInv, LedgerInv, [Next]_vars PROVE LedgerInv'
  OBVIOUS
<1>1. CASE UNCHANGED vars
  BY <1>1, StutterKeeps
<1>2. ASSUME NEW s \in Sessions, NEW k \in Commands, Begin(s, k) PROVE LedgerInv'
  BY <1>2, BeginKeeps
<1>3. ASSUME NEW s \in Sessions, Step(s) PROVE LedgerInv'
  <2>1. \/ Observe(s) \/ LockParent(s) \/ ParentsLocked(s) \/ LockChild(s)
        \/ InsertApproval(s) \/ InsertCancellation(s) \/ MatchApproval(s)
        \/ LockUpdated(s) \/ Commit(s)
        => LedgerInv'
    BY ObserveKeeps, LockParentKeeps, ParentsLockedKeeps, LockChildKeeps,
       InsertApprovalKeeps, InsertCancellationKeeps, MatchKeeps, LockUpdatedKeeps,
       CommitKeeps
  <2>2. \/ LinkInserted(s) \/ LinkCancellation(s) \/ UnlinkCancellation(s)
        \/ RemoveCancellation(s) \/ RemoveApproval(s)
        \/ FlagApproval(s) \/ FlagCancellation(s)
        \/ AmendApproval(s) \/ RecalculateChain(s)
        => LedgerInv'
    BY LinkInsertedKeeps, LinkCancellationKeeps, UnlinkCancellationKeeps,
       RemoveCancellationKeeps, RemoveApprovalKeeps, FlagApprovalKeeps,
       FlagCancellationKeeps, AmendApprovalKeeps, RecalculateChainKeeps
  <2> QED
    BY <1>3, <2>1, <2>2 DEF Step
<1>4. ASSUME NEW s \in Sessions, Abort(s) PROVE LedgerInv'
  BY <1>4, RollbackKeeps DEF Abort
<1> QED
  BY <1>1, <1>2, <1>3, <1>4 DEF Next

(* The committed ledger in the words of the two properties. *)
LEMMA LedgerHolds == TypeInv /\ LedgerInv => ChainBalanced /\ LinksSound
<1> SUFFICES ASSUME TypeInv, LedgerInv PROVE ChainBalanced /\ LinksSound
  OBVIOUS
<1>1. \A a \in Approvals : Good(db, a)
  BY DEF LedgerInv, AllGood
<1>2. ChainBalanced
  BY <1>1 DEF ChainBalanced, Good, Balanced
<1>3. LinksSound
  <2> SUFFICES ASSUME NEW c \in Cancellations, Present(db, c), db[c].parent # None
               PROVE  LET a == db[c].parent IN
                      /\ Present(db, a)
                      /\ House[a] = House[c]
                      /\ db[c].cur = db[a].cur /\ db[c].day = db[a].day
                      /\ db[c].amount = Krw(db[c].units, db[a].cur, db[a].day)
    BY DEF LinksSound
  <2>1. db[c].parent \in Approvals
    BY Types DEF Row, Ids
  <2>2. c \in Children(db, db[c].parent)
    BY DEF Children
  <2> QED
    BY <1>1, <2>1, <2>2 DEF Good, Sound
<1> QED
  BY <1>2, <1>3

(* For every set of rows, sessions and commands, whatever the interleaving *)
(* of their statements: a committed approval counts exactly its linked     *)
(* cancellations, at the exact KRW amounts (writeChain and the row locks   *)
(* every path to it takes first).                                          *)
THEOREM ChainBalancedAlways == Spec => []ChainBalanced
<1> QED
  BY InitTypeInv, NextTypeInv, InitLedger, NextLedger, LedgerHolds, PTL DEF Spec

(* And no link outlives its approval, crosses households or currencies, or *)
(* keeps the rate of another day (applyLink, removeTransaction, the amend  *)
(* of a chain).                                                            *)
THEOREM LinksSoundAlways == Spec => []LinksSound
<1> QED
  BY InitTypeInv, NextTypeInv, InitLedger, NextLedger, LedgerHolds, PTL DEF Spec

-----------------------------------------------------------------------------
(* Locks are taken upwards and those of cancellations last: what a session *)
(* holds at each statement, its own insert aside.  One that was asked to   *)
(* amend or recalculate a cancellation locks that row before it finds out: *)
(* it has then nothing left to lock.                                       *)
HoldInv(s) ==
  /\ \A i \in Ids : lock[i] = s /\ ~Own(s, i) =>
       /\ pc[s] # "match"
       /\ pc[s] \in {"parents", "child"} => i \in Approvals \cup {cmd[s].id}
       /\ pc[s] = "parents" => \A j \in todo[s] : i \in Approvals /\ i < j
       /\ pc[s] = "body" /\ i \in Cancellations => i = cmd[s].id
       /\ pc[s] = "update" /\ i \in Cancellations => write[s][i] # Keep
  /\ pc[s] = "parents" => todo[s] \subseteq Approvals \/ todo[s] \subseteq {cmd[s].id}
  /\ pc[s] = "child" => cmd[s].id \in Cancellations

(* The order is that of every session but those told to link a             *)
(* cancellation to a cancellation.                                         *)
OnTarget(s) == cmd[s].to \notin Cancellations
OrderInv == \A s \in Sessions : OnTarget(s) => HoldInv(s)

LEMMA HoldKept ==
  ASSUME NEW u \in Sessions, HoldInv(u), Stays(u),
         \A i \in Ids : (lock'[i] = u) <=> (lock[i] = u)
  PROVE  HoldInv(u)'
<1>1. \A i \in Ids : Own(u, i)' <=> Own(u, i)
  BY DEF Own, Stays
<1> QED
  BY <1>1 DEF HoldInv, Stays

(* Whatever a session does, the others hold what they held. *)
LEMMA OwnHold ==
  ASSUME OrderInv, NEW s \in Sessions, \A u \in Sessions \ {s} : Stays(u),
         \A i \in Ids : \/ lock'[i] = lock[i]
                        \/ lock[i] \in {Free, s} /\ lock'[i] \in {Free, s},
         OnTarget(s)' => HoldInv(s)'
  PROVE  OrderInv'
<1>1. ASSUME NEW u \in Sessions \ {s}, OnTarget(u)' PROVE HoldInv(u)'
  <2>1. \A i \in Ids : (lock'[i] = u) <=> (lock[i] = u)
    BY SessionAssumption
  <2>2. HoldInv(u)
    BY <1>1 DEF OrderInv, OnTarget, Stays
  <2> QED
    BY <2>1, <2>2, HoldKept
<1> QED
  BY <1>1 DEF OrderInv

LEMMA CloseHolds ==
  ASSUME TypeInv, OrderInv, NEW s \in Sessions, Close(s)
  PROVE  OrderInv'
<1>1. pc'[s] = "idle" /\ \A u \in Sessions \ {s} : Stays(u)
  BY Types DEF Close, Stays
<1>2. \A i \in Ids : /\ lock'[i] # s
                     /\ lock'[i] = lock[i] \/ (lock[i] = s /\ lock'[i] = Free)
  BY SessionAssumption DEF Close
<1>3. HoldInv(s)'
  BY <1>1, <1>2 DEF HoldInv
<1> QED
  BY <1>1, <1>2, <1>3, OwnHold

LEMMA RollbackHolds ==
  ASSUME TypeInv, OrderInv, NEW s \in Sessions, Rollback(s)
  PROVE  OrderInv'
BY CloseHolds DEF Rollback

LEMMA BeginHolds ==
  ASSUME TypeInv, LedgerInv, OrderInv, NEW s \in Sessions, NEW k \in Commands, Begin(s, k)
  PROVE  OrderInv'
<1>1. /\ pc[s] = "idle" /\ lock' = lock /\ pc'[s] \in {"insert", "observe"}
      /\ \A u \in Sessions \ {s} : Stays(u)
  BY Types DEF Begin, Goto, Stays
<1>2. HoldInv(s)'
  BY <1>1, SessionAssumption DEF LedgerInv, LockInv, Late, HoldInv
<1> QED
  BY <1>1, <1>2, OwnHold

LEMMA ObserveHolds ==
  ASSUME TypeInv, LedgerInv, OrderInv, NEW s \in Sessions, Observe(s)
  PROVE  OrderInv'
<1> DEFINE k == cmd[s]
<1>1. CASE ~(Present(db, k.id) /\ RightType(k))
  <2>1. Rollback(s)
    BY <1>1, Zenon DEF Observe
  <2> QED
    BY <2>1, RollbackHolds
<1>2. CASE Present(db, k.id) /\ RightType(k)
  <2>t. k \in Commands /\ k.id \in Ids /\ db[k.id] \in Row
    BY <1>2, Types
  <2>1. /\ pc[s] = "observe" /\ lock' = lock /\ pc'[s] = "parents"
        /\ todo'[s] = ParentsToLock(k)
        /\ \A u \in Sessions \ {s} : Stays(u)
    BY <1>2, Types DEF Observe, Goto, Stays
  <2>2. \A i \in Ids : lock'[i] # s
    BY <2>1, SessionAssumption DEF LedgerInv, LockInv, Late
  <2>3. /\ db[k.id].parent \in Approvals \cup {None} /\ cmd'[s] = k
        /\ OnTarget(s)' => k.to \in Approvals \cup {None}
    <3>1. cmd'[s] = k
      BY <1>2 DEF Observe
    <3> QED
      BY <2>t, <3>1, CommandType DEF Row, OnTarget, Ids
  <2>4. OnTarget(s)' => ParentsToLock(k) \subseteq Approvals \/ ParentsToLock(k) \subseteq {k.id}
    <3>1. CASE k.op = "link"
      BY <2>3, <3>1 DEF ParentsToLock
    <3>2. CASE k.op \in {"amend", "recalculate"}
      BY <2>t, <3>2 DEF ParentsToLock
    <3>3. CASE k.op \notin {"link", "amend", "recalculate"}
      BY <2>3, <3>3 DEF ParentsToLock
    <3> QED
      BY <3>1, <3>2, <3>3
  <2>5. OnTarget(s)' => HoldInv(s)'
    BY <2>1, <2>2, <2>3, <2>4 DEF HoldInv
  <2> QED
    BY <2>1, <2>5, OwnHold
<1> QED
  BY <1>1, <1>2

LEMMA LockParentHolds ==
  ASSUME TypeInv, LedgerInv, OrderInv, NEW s \in Sessions, LockParent(s)
  PROVE  OrderInv'
<1> DEFINE i == Lowest(todo[s])
<1>1. /\ pc[s] = "parents" /\ todo[s] # {} /\ Acquire(s, i)
      /\ todo'[s] = todo[s] \ {i} /\ cmd'[s] = cmd[s] /\ pc'[s] = pc[s]
      /\ \A u \in Sessions \ {s} : Stays(u)
  BY Types DEF LockParent, LockNext, Stays
<1>2. i \in todo[s] /\ i \in Ids /\ (\A j \in todo[s] : i <= j) /\ todo[s] \subseteq Ids
  BY <1>1, Types, LowestIs
<1>n. todo[s] \subseteq Nat
  BY <1>2, IdsAssumption DEF Ids
<1> HIDE DEF i
<1>3. /\ \A j \in Ids : j # i => lock'[j] = lock[j]
      /\ \A j \in Ids : lock'[j] = lock[j] \/ (lock[j] \in {Free, s} /\ lock'[j] = s)
  BY <1>1, <1>2, Acquired
<1>4. \A j \in Ids : Own(s, j)' <=> Own(s, j)
  BY <1>1 DEF Own
<1>5. \A j \in todo'[s] : i < j
  BY <1>1, <1>2, <1>n
<1>6. ASSUME OnTarget(s) PROVE HoldInv(s)'
  <2>1. HoldInv(s)
    BY <1>6 DEF OrderInv
  <2>2. ASSUME NEW j \in Ids, lock'[j] = s, ~Own(s, j)
        PROVE  /\ j \in Approvals \cup {cmd[s].id}
               /\ \A m \in todo'[s] : j \in Approvals /\ j < m
    <3>1. CASE j = i
      BY <1>1, <1>2, <1>5, <2>1, <3>1 DEF HoldInv
    <3>2. CASE j # i
      BY <1>1, <1>3, <2>1, <2>2, <3>2 DEF HoldInv
    <3> QED
      BY <3>1, <3>2
  <2> QED
    BY <1>1, <1>4, <2>1, <2>2 DEF HoldInv
<1> QED
  BY <1>1, <1>3, <1>6, OwnHold DEF OnTarget

LEMMA ParentsLockedHolds ==
  ASSUME TypeInv, LedgerInv, OrderInv, NEW s \in Sessions, ParentsLocked(s)
  PROVE  OrderInv'
<1>1. /\ pc[s] = "parents" /\ lock' = lock /\ cmd'[s] = cmd[s]
      /\ pc'[s] = IF cmd[s].id \in Cancellations THEN "child" ELSE "body"
      /\ \A u \in Sessions \ {s} : Stays(u)
  BY Types DEF ParentsLocked, Goto, Stays
<1>2. \A j \in Ids : Own(s, j)' <=> Own(s, j)
  BY <1>1 DEF Own, Late
<1>3. ASSUME OnTarget(s) PROVE HoldInv(s)'
  <2>1. \A i \in Ids : lock[i] = s /\ ~Own(s, i) => i \in Approvals \cup {cmd[s].id}
    BY <1>1, <1>3 DEF OrderInv, HoldInv
  <2> QED
    BY <1>1, <1>2, <2>1, ApprovalIsNone DEF HoldInv
<1> QED
  BY <1>1, <1>3, OwnHold DEF OnTarget

LEMMA LockChildHolds ==
  ASSUME TypeInv, LedgerInv, OrderInv, NEW s \in Sessions, LockChild(s)
  PROVE  OrderInv'
<1> DEFINE c == cmd[s].id
<1>1. /\ pc[s] = "child" /\ Acquire(s, c) /\ cmd'[s] = cmd[s]
      /\ pc'[s] = "body" /\ c \in Ids
      /\ \A u \in Sessions \ {s} : Stays(u)
  BY Types DEF LockChild, Goto, Stays
<1>2. /\ \A j \in Ids : j # c => lock'[j] = lock[j]
      /\ \A j \in Ids : lock'[j] = lock[j] \/ (lock[j] \in {Free, s} /\ lock'[j] = s)
  BY <1>1, Acquired
<1>3. \A j \in Ids : Own(s, j)' <=> Own(s, j)
  BY <1>1 DEF Own, Late
<1>4. ASSUME OnTarget(s) PROVE HoldInv(s)'
  <2>1. \A i \in Ids : lock[i] = s /\ ~Own(s, i) => i \in Approvals \cup {c}
    BY <1>1, <1>4 DEF OrderInv, HoldInv
  <2> QED
    BY <1>1, <1>2, <1>3, <2>1, ApprovalIsNone DEF HoldInv
<1> QED
  BY <1>1, <1>2, <1>4, OwnHold DEF OnTarget

LEMMA InsertHolds ==
  ASSUME TypeInv, LedgerInv, OrderInv, NEW s \in Sessions,
         InsertApproval(s) \/ InsertCancellation(s)
  PROVE  OrderInv'
<1> DEFINE c == cmd[s].id
<1>1. CASE Rollback(s)
  BY <1>1, RollbackHolds
<1>2. CASE ~Rollback(s)
  <2>1. /\ pc[s] = "insert" /\ cmd[s].op \in Creates /\ c \in Ids /\ cmd'[s] = cmd[s]
        /\ lock[c] = Free /\ lock' = [lock EXCEPT ![c] = s]
        /\ pc'[s] \in {"update", "match"}
        /\ \A u \in Sessions \ {s} : Stays(u)
    <3>1. CASE InsertApproval(s)
      BY <1>2, <3>1, Types DEF InsertApproval, At, Goto, Stays, Creates
    <3>2. CASE InsertCancellation(s)
      BY <1>2, <3>2, Types DEF InsertCancellation, At, Goto, Stays, Creates
    <3> QED
      BY <3>1, <3>2
  <2>2. lock'[c] = s /\ \A i \in Ids : i # c => lock'[i] = lock[i]
    BY <2>1, Types
  <2>3. \A i \in Ids : lock[i] # s
    BY <2>1, SessionAssumption DEF LedgerInv, LockInv, Late
  <2>4. Own(s, c)'
    BY <2>1 DEF Own, Late
  <2>5. HoldInv(s)'
    BY <2>1, <2>2, <2>3, <2>4 DEF HoldInv
  <2> QED
    BY <2>1, <2>2, <2>5, OwnHold
<1> QED
  BY <1>1, <1>2

LEMMA MatchHolds ==
  ASSUME TypeInv, LedgerInv, OrderInv, NEW s \in Sessions,
         MatchApproval(s)
  PROVE  OrderInv'
<1>1. /\ pc[s] = "match" /\ lock' = lock /\ cmd'[s] = cmd[s]
      /\ pc'[s] \in {"parents", "update"}
      /\ pc'[s] = "parents" => todo'[s] = Matches(s)
      /\ \A u \in Sessions \ {s} : Stays(u)
  BY Types DEF MatchApproval, Goto, Stays
<1>2. \A i \in Ids : Own(s, i)' <=> Own(s, i)
  BY <1>1 DEF Own, Late
<1>3. ASSUME OnTarget(s) PROVE HoldInv(s)'
  <2>1. cmd[s].to \in Approvals \cup {None}
    BY <1>3, Types, CommandType DEF OnTarget, Ids
  <2>2. Matches(s) \subseteq Approvals
    BY <2>1 DEF Matches, Candidates
  <2>3. \A i \in Ids : lock[i] = s => Own(s, i)
    BY <1>1, <1>3 DEF OrderInv, HoldInv
  <2> QED
    BY <1>1, <1>2, <2>2, <2>3 DEF HoldInv
<1> QED
  BY <1>1, <1>3, OwnHold DEF OnTarget

(* The plan of a request about a cancellation writes that cancellation. *)
LEMMA PrepareIfHolds ==
  ASSUME TypeInv, LedgerInv, OrderInv, NEW s \in Sessions, pc[s] = "body", NEW ok,
         NEW image, NEW touched, PrepareIf(s, ok, image, touched),
         ok /\ cmd[s].id \in Cancellations =>
           \/ Own(s, cmd[s].id)
           \/ cmd[s].id \in touched /\ image[cmd[s].id] # Keep
  PROVE  OrderInv'
<1> DEFINE c == cmd[s].id
<1>1. CASE ~ok
  BY <1>1, RollbackHolds DEF PrepareIf
<1>2. CASE ok
  <2>1. /\ lock' = lock /\ pc'[s] = "update" /\ cmd'[s] = cmd[s] /\ c \in Ids
        /\ write'[s] = [i \in Ids |-> IF i \in touched THEN image[i] ELSE Keep]
        /\ \A u \in Sessions \ {s} : Stays(u)
    BY <1>2, Types DEF PrepareIf, Prepare, Stays
  <2>2. \A i \in Ids : Own(s, i)' <=> Own(s, i)
    BY <2>1 DEF Own, Late
  <2>3. ASSUME NEW i \in Ids, OnTarget(s), lock[i] = s, ~Own(s, i), i \in Cancellations
        PROVE  write'[s][i] # Keep
    <3>1. i = c
      BY <2>3 DEF OrderInv, HoldInv
    <3>2. c \in touched /\ image[c] # Keep
      BY <1>2, <2>3, <3>1
    <3> QED
      BY <2>1, <3>1, <3>2
  <2>4. OnTarget(s) => HoldInv(s)'
    BY <2>1, <2>2, <2>3 DEF HoldInv
  <2> QED
    BY <2>1, <2>4, OwnHold DEF OnTarget
<1> QED
  BY <1>1, <1>2

LEMMA NotKeep ==
  ASSUME NEW d \in Database, NEW i \in Ids PROVE d[i] # Keep
BY RowAssumption DEF Database

LEMMA LinksHold ==
  ASSUME TypeInv, LedgerInv, OrderInv, NEW s \in Sessions,
         LinkInserted(s) \/ LinkCancellation(s)
  PROVE  OrderInv'
<1> DEFINE c == cmd[s].id
<1>1. CASE LinkInserted(s)
  <2> DEFINE d == OwnView(s)
             ok == LinkOk(d, c, None, seen[s])
             image == Linked(d, c, None, seen[s])
             touched == LinkTouched(d, c, None, seen[s])
  <2>1. pc[s] = "body" /\ PrepareIf(s, ok, image, touched) /\ cmd[s].op \in Creates
    BY <1>1, Zenon DEF LinkInserted, At, Creates
  <2>2. Own(s, c)
    BY <2>1, InsertSeen
  <2> HIDE DEF ok, image, touched
  <2> QED
    BY <2>1, <2>2, PrepareIfHolds
<1>2. CASE LinkCancellation(s)
  <2> DEFINE a == cmd[s].to
             ok == Unchanged(s) /\ LinkOk(db, c, seen[s], a)
             image == Linked(db, c, seen[s], a)
             touched == LinkTouched(db, c, seen[s], a)
  <2>1. pc[s] = "body" /\ PrepareIf(s, ok, image, touched)
    BY <1>2, Zenon DEF LinkCancellation, At
  <2>2. cmd[s].op \notin {"amend", "recalculate"}
    BY <1>2 DEF LinkCancellation, At
  <2>3. ok => c \in touched /\ image[c] # Keep
    <3> SUFFICES ASSUME ok PROVE c \in touched /\ image[c] # Keep
      OBVIOUS
    <3>1. c \in Ids /\ db[c] \in Row /\ seen[s] \in Approvals \cup {None} /\ db \in Database
      BY <2>1, <2>2, ParentHeld, Types
    <3>2. image \in Database
      <4> HIDE DEF c, a
      <4> QED
        BY <3>1, LinkedType
    <3>3. c \in touched
      BY DEF LinkTouched
    <3> QED
      BY <3>1, <3>2, <3>3, NotKeep
  <2> HIDE DEF ok, image, touched
  <2> QED
    BY <2>1, <2>3, PrepareIfHolds
<1> QED
  BY <1>1, <1>2

LEMMA RestoresHold ==
  ASSUME TypeInv, LedgerInv, OrderInv, NEW s \in Sessions,
         UnlinkCancellation(s) \/ RemoveCancellation(s)
  PROVE  OrderInv'
<1>1. ASSUME NEW d, NEW ok, pc[s] = "body", d \in Database,
             cmd[s].op \notin {"amend", "recalculate"},
             ok => Unchanged(s) /\ RestoreOk(db, d, cmd[s].id),
             PrepareIf(s, ok, Restored(db, d, cmd[s].id), RestoreTouched(db, d, cmd[s].id))
      PROVE  OrderInv'
  <2> DEFINE c == cmd[s].id
             image == Restored(db, d, c)
             touched == RestoreTouched(db, d, c)
  <2>1. ok => c \in touched /\ image[c] # Keep
    <3> SUFFICES ASSUME ok PROVE c \in touched /\ image[c] # Keep
      OBVIOUS
    <3>1. c \in Ids /\ db[c] \in Row /\ db \in Database /\ RestoreOk(db, d, c)
      BY <1>1, ParentHeld, Types
    <3>2. image \in Database
      <4> HIDE DEF c
      <4> QED
        BY <1>1, <3>1, RestoredType
    <3>3. c \in touched
      BY DEF RestoreTouched
    <3> QED
      BY <3>1, <3>2, <3>3, NotKeep
  <2>2. PrepareIf(s, ok, image, touched)
    BY <1>1
  <2> HIDE DEF image, touched
  <2> QED
    BY <1>1, <2>1, <2>2, PrepareIfHolds
<1> DEFINE c == cmd[s].id
<1>2. CASE UnlinkCancellation(s)
  <2> DEFINE d == Detached(db, c)
             ok == Unchanged(s) /\ seen[s] # None /\ RestoreOk(db, d, c)
  <2>1. pc[s] = "body" /\ PrepareIf(s, ok, Restored(db, d, c), RestoreTouched(db, d, c))
    BY <1>2, Zenon DEF UnlinkCancellation, At
  <2>2. cmd[s].op \notin {"amend", "recalculate"}
    BY <1>2 DEF UnlinkCancellation, At
  <2>3. CASE Unchanged(s)
    <3>1. d \in Database
      BY <2>1, <2>2, <2>3, ParentHeld, DetachedType, Types
    <3> HIDE DEF d
    <3> QED
      BY <1>1, <2>1, <2>2, <3>1
  <2>4. CASE ~Unchanged(s)
    BY <2>1, <2>4, RollbackHolds DEF PrepareIf
  <2> QED
    BY <2>3, <2>4
<1>3. CASE RemoveCancellation(s)
  <2> DEFINE d == Erased(db, c)
             ok == Unchanged(s) /\ RestoreOk(db, d, c)
  <2>1. pc[s] = "body" /\ PrepareIf(s, ok, Restored(db, d, c), RestoreTouched(db, d, c))
    BY <1>3, Zenon DEF RemoveCancellation, At
  <2>2. cmd[s].op \notin {"amend", "recalculate"}
    BY <1>3 DEF RemoveCancellation, At
  <2>3. d \in Database
    BY ErasedType, Types
  <2> HIDE DEF d
  <2> QED
    BY <1>1, <2>1, <2>2, <2>3
<1> QED
  BY <1>2, <1>3

LEMMA ApprovalsHold ==
  ASSUME TypeInv, LedgerInv, OrderInv, NEW s \in Sessions,
         RemoveApproval(s) \/ FlagApproval(s) \/ AmendApproval(s) \/ RecalculateChain(s)
  PROVE  OrderInv'
<1>1. ASSUME NEW ok, NEW image, NEW touched, pc[s] = "body", PrepareIf(s, ok, image, touched),
             ok => cmd[s].id \in Approvals
      PROVE  OrderInv'
  BY <1>1, ApprovalIsNone, PrepareIfHolds
<1> DEFINE k == cmd[s]
<1>2. CASE RemoveApproval(s)
  <2> DEFINE ok == Present(db, k.id) /\ Children(db, k.id) = {}
             image == Erased(db, k.id)
  <2>1. pc[s] = "body" /\ k.id \in Approvals /\ PrepareIf(s, ok, image, {k.id})
    BY <1>2, Zenon DEF RemoveApproval, At
  <2> HIDE DEF ok, image
  <2> QED
    BY <1>1, <2>1
<1>3. CASE FlagApproval(s)
  <2> DEFINE ok == /\ Present(db, k.id) /\ Reviewable(k.id, k.flag) /\ RecalcOk(db, k.id)
             image == Recalculate(db, k.id, k.flag, FALSE)
  <2>1. pc[s] = "body" /\ k.id \in Approvals /\ PrepareIf(s, ok, image, {k.id})
    BY <1>3, Zenon DEF FlagApproval, At
  <2> HIDE DEF ok, image
  <2> QED
    BY <1>1, <2>1
<1>4. CASE AmendApproval(s)
  <2> DEFINE ok == Present(db, k.id) /\ k.id \in Approvals /\ AmendOk(db, k)
             image == Amended(db, k)
             touched == {k.id} \cup Children(db, k.id)
  <2>1. pc[s] = "body" /\ PrepareIf(s, ok, image, touched)
    BY <1>4, Zenon DEF AmendApproval, At
  <2>2. ok => k.id \in Approvals
    OBVIOUS
  <2> HIDE DEF ok, image, touched
  <2> QED
    BY <1>1, <2>1, <2>2
<1>5. CASE RecalculateChain(s)
  <2> DEFINE ok == Present(db, k.id) /\ k.id \in Approvals /\ RecalcOk(db, k.id)
             image == Recalculated(db, k.id)
             touched == {k.id} \cup Children(db, k.id)
  <2>1. pc[s] = "body" /\ PrepareIf(s, ok, image, touched)
    BY <1>5, Zenon DEF RecalculateChain, At
  <2>2. ok => k.id \in Approvals
    OBVIOUS
  <2> HIDE DEF ok, image, touched
  <2> QED
    BY <1>1, <2>1, <2>2
<1> QED
  BY <1>2, <1>3, <1>4, <1>5

LEMMA FlagCancellationHolds ==
  ASSUME TypeInv, LedgerInv, OrderInv, NEW s \in Sessions, FlagCancellation(s)
  PROVE  OrderInv'
<1> DEFINE k == cmd[s]
           c == k.id
           ok == Unchanged(s) /\ Reviewable(c, k.flag)
           image == Flagged(db, c, k.flag)
<1>1. /\ pc[s] = "body" /\ c \in Ids /\ k.flag \in Flags \cup {NoFlag}
      /\ cmd[s].op \notin {"amend", "recalculate"}
  BY Types, CommandType DEF FlagCancellation, At
<1>2. PrepareIf(s, ok, image, {c})
  BY Zenon DEF FlagCancellation
<1>3. ok => c \in {c} /\ image[c] # Keep
  <2> SUFFICES ASSUME ok PROVE image[c] # Keep
    OBVIOUS
  <2>1. db[c] \in Row /\ db \in Database
    BY <1>1, ParentHeld, Types
  <2>2. image \in Database
    BY <1>1, <2>1, FlaggedType
  <2> QED
    BY <1>1, <2>2, NotKeep
<1> HIDE DEF ok, image
<1> QED
  BY <1>1, <1>2, <1>3, PrepareIfHolds

LEMMA LockUpdatedHolds ==
  ASSUME TypeInv, LedgerInv, OrderInv, NEW s \in Sessions, LockUpdated(s)
  PROVE  OrderInv'
<1> DEFINE i == Lowest(todo[s])
<1>1. /\ pc[s] = "update" /\ todo[s] # {} /\ Acquire(s, i)
      /\ cmd'[s] = cmd[s] /\ pc'[s] = pc[s] /\ write'[s] = write[s]
      /\ \A u \in Sessions \ {s} : Stays(u)
  BY Types DEF LockUpdated, LockNext, Stays
<1>2. i \in todo[s] /\ i \in Ids
  BY <1>1, Types, LowestIs
<1> HIDE DEF i
<1>3. /\ \A j \in Ids : j # i => lock'[j] = lock[j]
      /\ \A j \in Ids : lock'[j] = lock[j] \/ (lock[j] \in {Free, s} /\ lock'[j] = s)
  BY <1>1, <1>2, Acquired
<1>4. \A j \in Ids : Own(s, j)' <=> Own(s, j)
  BY <1>1 DEF Own
<1>5. write[s][i] # Keep
  BY <1>1, <1>2 DEF LedgerInv, SessionInv, WriteInv
<1>6. OnTarget(s) => HoldInv(s)'
  BY <1>1, <1>3, <1>4, <1>5 DEF OrderInv, HoldInv
<1> QED
  BY <1>1, <1>3, <1>6, OwnHold DEF OnTarget

LEMMA NextOrder == TypeInv /\ LedgerInv /\ OrderInv /\ [Next]_vars => OrderInv'
<1> SUFFICES ASSUME TypeInv, LedgerInv, OrderInv, [Next]_vars PROVE OrderInv'
  OBVIOUS
<1>1. CASE UNCHANGED vars
  <2>1. lock' = lock /\ \A u \in Sessions : Stays(u)
    BY <1>1 DEF vars, Stays
  <2> QED
    BY <2>1, HoldKept DEF OrderInv, OnTarget, Stays
<1>2. ASSUME NEW s \in Sessions, NEW k \in Commands, Begin(s, k) PROVE OrderInv'
  BY <1>2, BeginHolds
<1>3. ASSUME NEW s \in Sessions, Step(s) PROVE OrderInv'
  <2>1. \/ Observe(s) \/ LockParent(s) \/ ParentsLocked(s) \/ LockChild(s)
        \/ InsertApproval(s) \/ InsertCancellation(s) \/ MatchApproval(s)
        \/ LockUpdated(s)
        => OrderInv'
    BY ObserveHolds, LockParentHolds, ParentsLockedHolds, LockChildHolds, InsertHolds,
       MatchHolds, LockUpdatedHolds
  <2>2. Commit(s) => OrderInv'
    BY CloseHolds DEF Commit
  <2>3. \/ LinkInserted(s) \/ LinkCancellation(s) \/ UnlinkCancellation(s)
        \/ RemoveCancellation(s) \/ RemoveApproval(s)
        \/ FlagApproval(s) \/ FlagCancellation(s)
        \/ AmendApproval(s) \/ RecalculateChain(s)
        => OrderInv'
    BY LinksHold, RestoresHold, ApprovalsHold, FlagCancellationHolds
  <2> QED
    BY <1>3, <2>1, <2>2, <2>3 DEF Step
<1>4. ASSUME NEW s \in Sessions, Abort(s) PROVE OrderInv'
  BY <1>4, RollbackHolds DEF Abort
<1> QED
  BY <1>1, <1>2, <1>3, <1>4 DEF Next

(* Among finitely many numbers there is a highest. *)
LEMMA HighestIs ==
  ASSUME NEW T \in SUBSET Ids, T # {}
  PROVE  \E i \in T : \A j \in T : j <= i
<1> DEFINE Above(x) == {j \in Ids : x < j}
           S == {Above(x) : x \in T}
           less == StrictSubsetOrdering(Ids)
<1>1. IsFiniteSet(Ids) /\ Ids \subseteq Nat
  BY IdsAssumption DEF Ids
<1>2. IsWellFoundedOn(less, FiniteSubsetsOf(Ids))
  BY FS_StrictSubsetOrderingWellFounded
<1>3. S \subseteq FiniteSubsetsOf(Ids) /\ S # {}
  <2>1. ASSUME NEW x \in T PROVE Above(x) \in FiniteSubsetsOf(Ids)
    BY <1>1, FS_Subset DEF FiniteSubsetsOf
  <2> QED
    BY <2>1
<1>4. PICK B \in S : \A C \in S : ~(<<C, B>> \in less)
  BY <1>2, <1>3, WFMin
<1>5. PICK i \in T : B = Above(i)
  OBVIOUS
<1>6. ASSUME NEW j \in T PROVE j <= i
  <2> SUFFICES ASSUME i < j PROVE FALSE
    BY <1>1
  <2>0. i \in Nat /\ j \in Nat /\ j \in Ids
    BY <1>1
  <2>1. Above(j) \subseteq Above(i) /\ j \in Above(i) /\ j \notin Above(j)
    <3>1. ASSUME NEW x \in Ids, j < x PROVE i < x
      BY <1>1, <2>0, <3>1
    <3>2. ~(j < j)
      BY <2>0
    <3> QED
      BY <2>0, <3>1, <3>2
  <2>2. <<Above(j), B>> \in less
    BY <1>5, <2>1 DEF StrictSubsetOrdering
  <2> QED
    BY <1>4, <2>2
<1> QED
  BY <1>6

(* What a session waits for, statement by statement. *)
LEMMA WaitFacts ==
  ASSUME TypeInv, LedgerInv, NEW s \in Sessions, NEW u, u \in WaitsFor(s)
  PROVE  /\ u \in Sessions /\ u # s /\ pc[u] \in Late
         /\ pc[s] \in {"insert", "parents", "child", "update"}
         /\ pc[s] = "child" => Present(db, cmd[s].id) /\ lock[cmd[s].id] = u
         /\ pc[s] \in {"parents", "update"} =>
              /\ todo[s] # {} /\ Present(db, Lowest(todo[s])) /\ lock[Lowest(todo[s])] = u
<1>1. PICK i \in Wants(s) : u = lock[i] /\ u # Free /\ u # s
  BY DEF WaitsFor
<1>2. CASE pc[s] = "insert"
  <2>1. i = cmd[s].id
    BY <1>1, <1>2 DEF Wants
  <2> QED
    BY <1>1, <1>2, <2>1, Types DEF LedgerInv, LockInv
<1>3. CASE pc[s] = "child"
  <2>1. i = cmd[s].id /\ Present(db, i)
    BY <1>1, <1>3 DEF Wants
  <2> QED
    BY <1>1, <1>3, <2>1, Types DEF LedgerInv, LockInv
<1>4. CASE pc[s] \in {"parents", "update"} /\ todo[s] # {}
  <2>1. Wants(s) = {j \in {Lowest(todo[s])} : Present(db, j)}
    BY <1>4 DEF Wants
  <2>2. i = Lowest(todo[s]) /\ Present(db, i)
    BY <1>1, <2>1
  <2>3. i \in Ids
    BY <1>4, <2>2, LowestIs, Types
  <2> QED
    BY <1>1, <1>4, <2>2, <2>3, Types DEF LedgerInv, LockInv
<1>5. CASE /\ pc[s] # "insert" /\ pc[s] # "child"
           /\ ~(pc[s] \in {"parents", "update"} /\ todo[s] # {})
  <2>1. Wants(s) = {}
    BY <1>5 DEF Wants
  <2> QED
    BY <1>1, <2>1
<1> QED
  BY <1>2, <1>3, <1>4, <1>5

(* Who holds a cancellation that it did not insert waits for nobody, unless *)
(* it waits for the rows of its plan.                                      *)
LEMMA HolderAtRest ==
  ASSUME NEW u \in Sessions, HoldInv(u), NEW i \in Ids, i \notin Approvals,
         lock[i] = u, ~Own(u, i), pc[u] \in Late, pc[u] # "update"
  PROVE  WaitsFor(u) = {}
<1>1. pc[u] # "match"
  BY DEF HoldInv
<1>2. CASE pc[u] = "parents"
  <2>1. todo[u] = {}
    BY <1>2 DEF HoldInv
  <2>2. Wants(u) = {}
    BY <1>2, <2>1 DEF Wants
  <2> QED
    BY <2>2 DEF WaitsFor
<1>3. CASE pc[u] = "child"
  <2>1. i = cmd[u].id
    BY <1>3 DEF HoldInv
  <2>2. \A j \in Wants(u) : lock[j] = u
    BY <1>3, <2>1 DEF Wants
  <2> QED
    BY <2>2 DEF WaitsFor
<1>4. CASE pc[u] = "body"
  <2>1. Wants(u) = {}
    BY <1>4 DEF Wants
  <2> QED
    BY <2>1 DEF WaitsFor
<1> QED
  BY <1>1, <1>2, <1>3, <1>4 DEF Late

(* A plan waits for a cancellation whose approval it holds, so the holder   *)
(* of that cancellation is about to find its read stale and to end.        *)
LEMMA UpdateWaits ==
  ASSUME TypeInv, LedgerInv, OrderInv, NEW s \in Sessions, pc[s] = "update",
         NEW u, u \in WaitsFor(s), OnTarget(u)
  PROVE  WaitsFor(u) = {}
<1> DEFINE i == Lowest(todo[s])
<1>1. /\ u \in Sessions /\ u # s /\ pc[u] \in Late
      /\ todo[s] # {} /\ Present(db, i) /\ lock[i] = u
  BY WaitFacts
<1>2. i \in todo[s] /\ i \in Ids
  BY <1>1, LowestIs, Types
<1> HIDE DEF i
<1>3. SessionInv(s) /\ SessionInv(u) /\ HoldInv(u)
  BY <1>1 DEF LedgerInv, OrderInv
<1>4. write[s][i] # Keep
  BY <1>2, <1>3 DEF SessionInv, WriteInv
<1>5. i \notin Approvals
  BY <1>1, <1>2, <1>3, <1>4 DEF SessionInv, WriteInv
<1>6. i \in Cancellations
  BY <1>2, <1>5 DEF Ids
<1>7. lock[IF db[i].parent = None THEN i ELSE db[i].parent] = s
  BY <1>1, <1>2, <1>3, <1>4, <1>6 DEF SessionInv, WriteInv
<1>8. ~Own(u, i)
  BY <1>1, <1>2, <1>3 DEF SessionInv, CommandInv
<1>9. pc[u] # "update"
  <2> SUFFICES ASSUME pc[u] = "update" PROVE FALSE
    OBVIOUS
  <2>1. write[u][i] # Keep
    BY <1>1, <1>2, <1>3, <1>6, <1>8 DEF HoldInv
  <2>2. lock[IF db[i].parent = None THEN i ELSE db[i].parent] = u
    BY <1>1, <1>2, <1>3, <1>6, <2>1 DEF SessionInv, WriteInv
  <2> QED
    BY <1>1, <1>7, <2>2
<1> QED
  BY <1>1, <1>2, <1>3, <1>5, <1>8, <1>9, HolderAtRest

LEMMA ChildWaits ==
  ASSUME TypeInv, LedgerInv, OrderInv, NEW s \in Sessions, pc[s] = "child",
         OnTarget(s), NEW u, u \in WaitsFor(s), OnTarget(u)
  PROVE  pc[u] = "update" \/ WaitsFor(u) = {}
<1> DEFINE i == cmd[s].id
<1>1. /\ u \in Sessions /\ pc[u] \in Late /\ i \in Ids
      /\ Present(db, i) /\ lock[i] = u
  BY WaitFacts, Types
<1>2. SessionInv(u) /\ HoldInv(u) /\ HoldInv(s)
  BY <1>1 DEF LedgerInv, OrderInv
<1>3. i \notin Approvals
  BY <1>2, ApprovalIsNone DEF HoldInv
<1>4. ~Own(u, i)
  BY <1>1, <1>2 DEF SessionInv, CommandInv
<1> HIDE DEF i
<1> QED
  BY <1>1, <1>2, <1>3, <1>4, HolderAtRest

(* Of two sessions at their parents the one waited for waits higher up. *)
LEMMA ParentsWaitUpwards ==
  ASSUME TypeInv, LedgerInv, OrderInv, NEW s \in Sessions, pc[s] = "parents",
         NEW u, u \in WaitsFor(s), OnTarget(u), pc[u] = "parents", todo[u] # {}
  PROVE  Lowest(todo[s]) < Lowest(todo[u])
<1> DEFINE i == Lowest(todo[s])
<1>1. /\ u \in Sessions /\ todo[s] # {} /\ Present(db, i) /\ lock[i] = u
  BY WaitFacts
<1>2. i \in Ids /\ Lowest(todo[u]) \in todo[u]
  BY <1>1, LowestIs, Types
<1> HIDE DEF i
<1>3. ~Own(u, i)
  BY <1>1, <1>2 DEF LedgerInv, SessionInv, CommandInv
<1>4. \A j \in todo[u] : i < j
  BY <1>1, <1>2, <1>3 DEF OrderInv, HoldInv
<1> QED
  BY <1>2, <1>4 DEF i

LEMMA NobodyWaitsInACircle == TypeInv /\ LedgerInv /\ OrderInv => NoLockCycle
<1> SUFFICES ASSUME TypeInv, LedgerInv, OrderInv,
                    NEW group \in SUBSET Sessions, group # {},
                    \A s \in group : OnTarget(s) /\ \E u \in group : u \in WaitsFor(s)
             PROVE  FALSE
  BY DEF NoLockCycle, OnTarget
<1>1. \A s \in group : pc[s] \in {"insert", "parents", "child", "update"}
  BY WaitFacts
<1>2. \A s \in group : pc[s] # "update"
  BY <1>1, UpdateWaits
<1>3. \A s \in group : pc[s] # "child"
  BY <1>1, <1>2, ChildWaits
<1>4. \A s \in group : \A u \in group : u \in WaitsFor(s) => pc[u] = "parents"
  BY <1>1, <1>2, <1>3, WaitFacts DEF Late
<1> DEFINE Waiters == {s \in group : pc[s] = "parents"}
           T == {Lowest(todo[s]) : s \in Waiters}
<1>5. ASSUME NEW s \in Waiters PROVE todo[s] # {} /\ Lowest(todo[s]) \in Ids
  <2>1. todo[s] # {} /\ todo[s] \in SUBSET Ids
    BY WaitFacts, Types
  <2>2. Lowest(todo[s]) \in todo[s]
    BY <2>1, LowestIs
  <2> QED
    BY <2>1, <2>2
<1>6. T \in SUBSET Ids /\ T # {}
  BY <1>4, <1>5
<1>7. PICK i \in T : \A j \in T : j <= i
  <2> HIDE DEF T
  <2> QED
    BY <1>6, HighestIs
<1>8. PICK s \in Waiters : i = Lowest(todo[s])
  OBVIOUS
<1>9. PICK u \in group : u \in WaitsFor(s)
  OBVIOUS
<1>10. u \in Waiters
  BY <1>4, <1>9
<1>11. i < Lowest(todo[u])
  BY <1>5, <1>8, <1>9, <1>10, ParentsWaitUpwards
<1>12. Lowest(todo[u]) <= i
  BY <1>7, <1>10
<1>13. i \in Nat /\ Lowest(todo[u]) \in Nat
  BY <1>5, <1>8, <1>10, IdsAssumption DEF Ids
<1> QED
  BY <1>11, <1>12, <1>13

LEMMA InitOrder == Init => OrderInv
BY SessionAssumption DEF Init, OrderInv, HoldInv

(* For every number of sessions, rows and commands, whatever a request      *)
(* names: no group of sessions waits for itself unless one of them is to    *)
(* link a cancellation to another (orderedLockIds, lockInOrder, the         *)
(* cancellation last, and the updates of a chain under the lock of its      *)
(* approval).                                                               *)
THEOREM NobodyIsDeadlocked == Spec => []NoLockCycle
<1> QED
  BY InitTypeInv, NextTypeInv, InitLedger, NextLedger, InitOrder, NextOrder,
     NobodyWaitsInACircle, PTL DEF Spec

-----------------------------------------------------------------------------
(* The interleaved statements implement the ledger.                        *)
(* A plan is local: made on d or on d2, it decides the same for the rows d  *)
(* and d2 agree on, and leaves the others alone.                           *)
Rows(e) == e = [i \in Ids |-> e[i]]
Local(d, f, d2, f2) ==
  /\ Rows(f2)
  /\ \A i \in Ids : \/ d2[i] = d[i] /\ f2[i] = f[i]
                    \/ f[i] = d[i] /\ f2[i] = d2[i]

(* What a session sees moves with the rows it does not write. *)
Moves(d, e, d2, e2) ==
  /\ Rows(e2)
  /\ \A i \in Ids : /\ d2[i] = d[i] => e2[i] = e[i]
                    /\ e[i] = d[i] => e2[i] = d2[i]

LEMMA LocalMoves ==
  ASSUME NEW d, NEW e, NEW d2, NEW e2, Moves(d, e, d2, e2), NEW f2, Local(d, e, d2, f2)
  PROVE  e2 = f2
<1>1. \A i \in Ids : e2[i] = f2[i]
  BY DEF Local, Moves
<1>2. e2 = [i \in Ids |-> f2[i]]
  BY <1>1 DEF Moves, Rows
<1> QED
  BY <1>2 DEF Local, Rows

LEMMA DatabaseRows == \A d \in Database : Rows(d)
BY DEF Database, Rows

LEMMA AlikePlan ==
  ASSUME NEW d, NEW d2, NEW a \in Approvals, Alike(d, d2, a)
  PROVE  /\ Present(d2, a) = Present(d, a)
         /\ CancelledUnits(d2, a) = CancelledUnits(d, a)
         /\ \A units, cur, day : PlanOk(d2, a, units, cur, day) = PlanOk(d, a, units, cur, day)
         /\ \A units, cur, day, at, flag :
              PlannedApproval(d2, a, units, cur, day, at, flag)
                = PlannedApproval(d, a, units, cur, day, at, flag)
         /\ \A c \in Children(d, a) : \A cur, day :
              PlannedChild(d2, c, cur, day) = PlannedChild(d, c, cur, day)
<1>1. Children(d2, a) = Children(d, a) /\ \A c \in Children(d, a) : d2[c] = d[c]
  BY DEF Alike
<1>2. CancelledUnits(d2, a) = CancelledUnits(d, a)
  BY <1>1, SameUnits
<1>3. \A units, cur, day : PlanOk(d2, a, units, cur, day) = PlanOk(d, a, units, cur, day)
  <2> SUFFICES ASSUME NEW units, NEW cur, NEW day
               PROVE  PlanOk(d2, a, units, cur, day) = PlanOk(d, a, units, cur, day)
    OBVIOUS
  <2>1. (\A c \in Children(d2, a) : d2[c].cur = cur) <=> (\A c \in Children(d, a) : d[c].cur = cur)
    BY <1>1
  <2>2. (\A c \in Children(d2, a) : Convertible(d2[c].units, cur, day))
          <=> (\A c \in Children(d, a) : Convertible(d[c].units, cur, day))
    BY <1>1
  <2> QED
    BY <1>2, <2>1, <2>2 DEF PlanOk
<1>4. \A units, cur, day, at, flag :
              PlannedApproval(d2, a, units, cur, day, at, flag)
                = PlannedApproval(d, a, units, cur, day, at, flag)
  BY <1>1, <1>2 DEF PlannedApproval
<1>5. \A c \in Children(d, a) : \A cur, day :
        PlannedChild(d2, c, cur, day) = PlannedChild(d, c, cur, day)
  BY <1>1, Zenon DEF PlannedChild
<1> QED
  BY <1>2, <1>3, <1>4, <1>5 DEF Alike, Present

LEMMA WriteChainLocal ==
  ASSUME NEW d, NEW d2, NEW a \in Approvals, Alike(d, d2, a),
         NEW units, NEW cur, NEW day, NEW at, NEW flag, NEW all
  PROVE  LET f == WriteChain(d, a, units, cur, day, at, flag, all)
             f2 == WriteChain(d2, a, units, cur, day, at, flag, all)
         IN /\ Local(d, f, d2, f2)
            /\ \A i \in Ids : i = a \/ i \in Children(d, a) => f2[i] = f[i]
<1> DEFINE f == WriteChain(d, a, units, cur, day, at, flag, all)
           f2 == WriteChain(d2, a, units, cur, day, at, flag, all)
<1>1. Rows(f2)
  BY DEF WriteChain, Rows
<1>2. /\ d2[a] = d[a] /\ Children(d2, a) = Children(d, a)
      /\ \A c \in Children(d, a) : d2[c] = d[c]
  BY DEF Alike
<1>3. \A i \in Ids : i = a => f2[i] = f[i]
  <2>1. \A i \in Ids : i = a => /\ f[i] = PlannedApproval(d, a, units, cur, day, at, flag)
                               /\ f2[i] = PlannedApproval(d2, a, units, cur, day, at, flag)
    BY Zenon DEF WriteChain
  <2>2. PlannedApproval(d2, a, units, cur, day, at, flag)
          = PlannedApproval(d, a, units, cur, day, at, flag)
    BY AlikePlan
  <2> HIDE DEF f, f2
  <2> QED
    BY <2>1, <2>2
<1>4. \A i \in Ids : i # a /\ i \in Children(d, a) => f2[i] = f[i]
  <2> SUFFICES ASSUME NEW i \in Ids, i # a, i \in Children(d, a) PROVE f2[i] = f[i]
    OBVIOUS
  <2>1. PlannedChild(d2, i, cur, day) = PlannedChild(d, i, cur, day)
    BY AlikePlan
  <2> QED
    BY <1>2, <2>1, Zenon DEF WriteChain
<1>5. \A i \in Ids : i # a /\ i \notin Children(d, a) => f[i] = d[i] /\ f2[i] = d2[i]
  BY <1>2 DEF WriteChain
<1> HIDE DEF f, f2
<1>6. Local(d, f, d2, f2)
  BY <1>1, <1>2, <1>3, <1>4, <1>5 DEF Local
<1> QED
  BY <1>3, <1>4, <1>6 DEF f, f2

LEMMA RecalculateLocal ==
  ASSUME NEW d, NEW d2, NEW a \in Approvals, Alike(d, d2, a), NEW flag, NEW all
  PROVE  LET f == Recalculate(d, a, flag, all)
             f2 == Recalculate(d2, a, flag, all)
         IN /\ RecalcOk(d2, a) = RecalcOk(d, a)
            /\ Local(d, f, d2, f2)
            /\ \A i \in Ids : i = a \/ i \in Children(d, a) => f2[i] = f[i]
<1>1. d2[a] = d[a]
  BY DEF Alike
<1>2. RecalcOk(d2, a) = RecalcOk(d, a)
  BY <1>1, AlikePlan DEF RecalcOk
<1>3. Recalculate(d2, a, flag, all)
        = WriteChain(d2, a, d[a].units, d[a].cur, d[a].day, d[a].at, flag, all)
  BY <1>1, Zenon DEF Recalculate
<1> QED
  BY <1>2, <1>3, WriteChainLocal DEF Recalculate

LEMMA RecalculatedLocal ==
  ASSUME NEW d, NEW d2, NEW a \in Approvals, Alike(d, d2, a)
  PROVE  LET f == Recalculated(d, a)
             f2 == Recalculated(d2, a)
         IN /\ RecalcOk(d2, a) = RecalcOk(d, a)
            /\ Local(d, f, d2, f2)
            /\ \A i \in Ids : i = a \/ i \in Children(d, a) => f2[i] = f[i]
<1>1. d2[a] = d[a]
  BY DEF Alike
<1>2. Recalculated(d2, a) = Recalculate(d2, a, FlagOf(d[a].status), TRUE)
  BY <1>1, Zenon DEF Recalculated
<1>w. PICK all \in BOOLEAN : all = TRUE
  OBVIOUS
<1> DEFINE flag == FlagOf(d[a].status)
<1>3. /\ Recalculated(d2, a) = Recalculate(d2, a, flag, all)
      /\ Recalculated(d, a) = Recalculate(d, a, flag, all)
  BY <1>2, <1>w, Zenon DEF Recalculated
<1> HIDE DEF flag
<1> QED
  BY <1>3, RecalculateLocal

(* Two databases that agree on a cancellation, both with that row replaced. *)
Replaced(d, x, c) == Rows(x) /\ \A i \in Ids : i # c => x[i] = d[i]

LEMMA ReplacedAlike ==
  ASSUME NEW d, NEW d2, NEW c \in Cancellations, NEW x, NEW x2,
         Replaced(d, x, c), Replaced(d2, x2, c), x2[c] = x[c],
         NEW p \in Approvals, Alike(d, d2, p)
  PROVE  Alike(x, x2, p)
<1>1. p # c /\ p \in Ids
  BY ApprovalIsNone
<1>2. x2[p] = x[p]
  BY <1>1 DEF Alike, Replaced
<1>3. ASSUME NEW i \in Cancellations
      PROVE  /\ i \in Children(x2, p) <=> i \in Children(x, p)
             /\ i \in Children(x, p) => x2[i] = x[i]
  <2>1. i \in Ids
    BY DEF Ids
  <2>2. CASE i = c
    BY <2>2 DEF Children, Present
  <2>3. CASE i # c
    <3>1. x[i] = d[i] /\ x2[i] = d2[i]
      BY <2>1, <2>3 DEF Replaced
    <3>2. /\ i \in Children(x, p) <=> i \in Children(d, p)
          /\ i \in Children(x2, p) <=> i \in Children(d2, p)
      BY <3>1 DEF Children, Present
    <3> QED
      BY <3>1, <3>2 DEF Alike
  <2> QED
    BY <2>2, <2>3
<1>4. Children(x2, p) = Children(x, p) /\ \A i \in Children(x, p) : x2[i] = x[i]
  <2>1. \A i \in Children(x, p) \cup Children(x2, p) : i \in Cancellations
    BY DEF Children
  <2> QED
    BY <1>3, <2>1
<1> QED
  BY <1>2, <1>4 DEF Alike

LEMMA ReplacedChildren ==
  ASSUME NEW d, NEW c, NEW x, Replaced(d, x, c), NEW p
  PROVE  \A i \in Children(x, p) : i \in Ids /\ (i # c => i \in Children(d, p))
BY DEF Replaced, Children, Present, Ids

LEMMA LinkedLocal ==
  ASSUME NEW d, NEW d2, NEW c \in Cancellations, d2[c] = d[c], NEW x, NEW x2,
         Replaced(d, x, c), Replaced(d2, x2, c), x2[c] = x[c],
         NEW a \in Approvals, Alike(d, d2, a),
         NEW previous \in Approvals \cup {None}, previous # None => Alike(d, d2, previous)
  PROVE  /\ LinkOk(x2, c, previous, a) = LinkOk(x, c, previous, a)
         /\ Local(d, Linked(x, c, previous, a), d2, Linked(x2, c, previous, a))
<1> DEFINE y == Claimed(x, c, a)
           y2 == Claimed(x2, c, a)
           f == Linked(x, c, previous, a)
           f2 == Linked(x2, c, previous, a)
<1>1. c \in Ids /\ a # c
  BY ApprovalIsNone DEF Ids
<1>2. /\ Replaced(d, y, c) /\ Replaced(d2, y2, c) /\ y2[c] = y[c]
      /\ Rows(y) /\ Rows(y2)
  <2>1. /\ Rows(y) /\ \A i \in Ids : i # c => y[i] = x[i]
        /\ Rows(y2) /\ \A i \in Ids : i # c => y2[i] = x2[i]
    BY <1>1 DEF Claimed, Rows, Replaced
  <2>2. y[c] = [x[c] EXCEPT !.parent = a] /\ y2[c] = [x2[c] EXCEPT !.parent = a]
    BY <1>1 DEF Claimed, Rows, Replaced
  <2> QED
    BY <2>1, <2>2 DEF Replaced
<1> HIDE DEF y, y2
<1>3. Alike(y, y2, a) /\ (previous # None => Alike(y, y2, previous))
  BY <1>2, ReplacedAlike
<1>4. Alike(x, x2, a) /\ (previous # None => Alike(x, x2, previous))
  BY ReplacedAlike
<1>5. \A p \in Abandoned(previous, a) : p = previous /\ p # None /\ p \in Approvals
  BY DEF Abandoned
<1>6. LinkOk(x2, c, previous, a) = LinkOk(x, c, previous, a)
  <2>1. Present(x2, a) = Present(x, a) /\ RecalcOk(y2, a) = RecalcOk(y, a)
    BY <1>3, <1>4, AlikePlan, RecalculatedLocal
  <2>2. \A p \in Abandoned(previous, a) :
          Present(x2, p) = Present(x, p) /\ RecalcOk(y2, p) = RecalcOk(y, p)
    BY <1>3, <1>4, <1>5, AlikePlan, RecalculatedLocal
  <2> QED
    BY <2>1, <2>2, Zenon DEF LinkOk, y, y2
<1>7. ASSUME NEW i \in Ids, NEW p \in Approvals, Alike(d, d2, p), Alike(y, y2, p),
             i \in {p} \cup Children(y, p)
      PROVE  d2[i] = d[i] /\ Recalculated(y2, p)[i] = Recalculated(y, p)[i]
  <2>1. Recalculated(y2, p)[i] = Recalculated(y, p)[i]
    BY <1>7, RecalculatedLocal
  <2>2. i = p \/ i = c \/ i \in Children(d, p)
    BY <1>2, <1>7, ReplacedChildren
  <2>3. d2[i] = d[i]
    BY <1>7, <2>2 DEF Alike
  <2> QED
    BY <2>1, <2>3
<1>8. ASSUME NEW i \in Ids
      PROVE  \/ d2[i] = d[i] /\ f2[i] = f[i]
             \/ f[i] = d[i] /\ f2[i] = d2[i]
  <2>1. CASE i \in {a} \cup Children(y, a)
    <3>1. i \in {a} \cup Children(y2, a)
      BY <1>3, <2>1 DEF Alike
    <3>2. f[i] = Recalculated(y, a)[i] /\ f2[i] = Recalculated(y2, a)[i]
      BY <2>1, <3>1, Zenon DEF Linked, y, y2
    <3> QED
      BY <1>3, <1>7, <2>1, <3>2
  <2>2. CASE /\ i \notin {a} \cup Children(y, a)
             /\ \E p \in Abandoned(previous, a) : i \in {p} \cup Children(y, p)
    <3>1. previous \in Abandoned(previous, a) /\ previous # None /\ i \in {previous} \cup Children(y, previous)
      BY <1>5, <2>2
    <3>2. i \notin {a} \cup Children(y2, a) /\ i \in {previous} \cup Children(y2, previous)
      BY <1>3, <2>2, <3>1 DEF Alike
    <3>3. f[i] = Recalculated(y, previous)[i] /\ f2[i] = Recalculated(y2, previous)[i]
      BY <2>2, <3>1, <3>2, Zenon DEF Linked, y, y2
    <3> QED
      BY <1>3, <1>5, <1>7, <3>1, <3>3
  <2>3. CASE /\ i \notin {a} \cup Children(y, a)
             /\ \A p \in Abandoned(previous, a) : i \notin {p} \cup Children(y, p)
    <3>1. /\ i \notin {a} \cup Children(y2, a)
          /\ \A p \in Abandoned(previous, a) : i \notin {p} \cup Children(y2, p)
      BY <1>3, <1>5, <2>3 DEF Alike
    <3>2. f[i] = y[i] /\ f2[i] = y2[i]
      BY <2>3, <3>1, Zenon DEF Linked, y, y2
    <3> QED
      BY <1>2, <3>2 DEF Replaced
  <2> QED
    BY <2>1, <2>2, <2>3
<1>9. Rows(f2)
  BY DEF Rows, Linked
<1>10. Local(d, f, d2, f2)
  BY <1>8, <1>9, Zenon DEF Local
<1> QED
  BY <1>6, <1>10

LEMMA RestoredLocal ==
  ASSUME NEW d, NEW d2, NEW c \in Cancellations, d2[c] = d[c], NEW x, NEW x2,
         Replaced(d, x, c), Replaced(d2, x2, c), x2[c] = x[c],
         d[c].parent \in Approvals \cup {None},
         d[c].parent # None => Alike(d, d2, d[c].parent)
  PROVE  /\ RestoreOk(d2, x2, c) = RestoreOk(d, x, c)
         /\ Local(d, Restored(d, x, c), d2, Restored(d2, x2, c))
<1> DEFINE p == d[c].parent
<1>1. /\ \A i \in Ids : \/ d2[i] = d[i] /\ x2[i] = x[i]
                        \/ x[i] = d[i] /\ x2[i] = d2[i]
      /\ Rows(x2)
  BY DEF Replaced
<1>2. CASE p = None
  <2>1. Restored(d, x, c) = x /\ Restored(d2, x2, c) = x2
    BY <1>2, Zenon DEF Restored
  <2>2. RestoreOk(d2, x2, c) = RestoreOk(d, x, c)
    BY <1>2, Zenon DEF RestoreOk
  <2> QED
    BY <1>1, <2>1, <2>2 DEF Local
<1>3. CASE p # None
  <2>1. p \in Approvals /\ Alike(x, x2, p) /\ Alike(d, d2, p)
    BY <1>3, ReplacedAlike
  <2> DEFINE f == Recalculated(x, p)
             f2 == Recalculated(x2, p)
  <2>2. /\ RecalcOk(x2, p) = RecalcOk(x, p) /\ Present(x2, p) = Present(x, p)
        /\ Local(x, f, x2, f2)
        /\ \A i \in Ids : i = p \/ i \in Children(x, p) => f2[i] = f[i]
    BY <2>1, RecalculatedLocal, AlikePlan
  <2>3. Restored(d, x, c) = f /\ Restored(d2, x2, c) = f2
    BY <1>3, Zenon DEF Restored
  <2>4. RestoreOk(d2, x2, c) = RestoreOk(d, x, c)
    BY <1>3, <2>2 DEF RestoreOk
  <2>5. ASSUME NEW i \in Ids
        PROVE  \/ d2[i] = d[i] /\ f2[i] = f[i]
               \/ f[i] = d[i] /\ f2[i] = d2[i]
    <3> HIDE DEF f, f2
    <3>1. CASE i = c
      <4>1. x2[i] = x[i]
        BY <3>1
      <4>2. f2[i] = f[i]
        BY <2>2, <4>1 DEF Local
      <4> QED
        BY <3>1, <4>2
    <3>2. CASE i # c
      BY <2>2, <3>2 DEF Local, Replaced
    <3> QED
      BY <3>1, <3>2
  <2>6. Local(d, f, d2, f2)
    BY <2>2, <2>5, Zenon DEF Local
  <2> QED
    BY <2>3, <2>4, <2>6
<1> QED
  BY <1>2, <1>3

(* An effect moves with the rows it is not about. *)
LEMMA WithCancellationReplaced ==
  ASSUME NEW d \in Database, NEW c \in Cancellations, NEW units, NEW cur, NEW at
  PROVE  LET x == WithCancellation(d, c, units, cur, at)
         IN Replaced(d, x, c) /\ x[c] = NewCancellation(units, cur, at)
<1>1. c \in Ids
  BY DEF Ids
<1> QED
  BY <1>1 DEF WithCancellation, Replaced, Rows, Database

LEMMA DetachedReplaced ==
  ASSUME NEW d \in Database, NEW c \in Ids
  PROVE  /\ Replaced(d, Detached(d, c), c)
         /\ Detached(d, c)[c] = [[d[c] EXCEPT !.parent = None] EXCEPT !.status = "pending_review"]
<1> DEFINE y == [d EXCEPT ![c].parent = None]
<1>1. Replaced(d, y, c) /\ y[c] = [d[c] EXCEPT !.parent = None]
  BY DatabaseRows DEF Rows, Replaced
<1>2. Detached(d, c) = [y EXCEPT ![c].status = "pending_review"]
  BY Zenon DEF Detached
<1> HIDE DEF y
<1>3. Replaced(y, Detached(d, c), c) /\ Detached(d, c)[c] = [y[c] EXCEPT !.status = "pending_review"]
  BY <1>1, <1>2 DEF Rows, Replaced
<1> QED
  BY <1>1, <1>3 DEF Replaced

LEMMA ErasedReplaced ==
  ASSUME NEW d \in Database, NEW c \in Ids
  PROVE  Replaced(d, Erased(d, c), c) /\ Erased(d, c)[c] = Absent
BY DEF Erased, Replaced, Rows, Database

LEMMA FlaggedReplaced ==
  ASSUME NEW d \in Database, NEW c \in Ids, NEW flag
  PROVE  /\ Replaced(d, Flagged(d, c, flag), c)
         /\ \E status :
              /\ status = IF flag # NoFlag THEN flag
                          ELSE IF d[c].parent # None THEN "approved" ELSE "pending_review"
              /\ Flagged(d, c, flag)[c] = [[d[c] EXCEPT !.net = 0] EXCEPT !.status = status]
<1> DEFINE y == [d EXCEPT ![c].net = 0]
<1>s. PICK status : status = IF flag # NoFlag THEN flag
                             ELSE IF d[c].parent # None THEN "approved" ELSE "pending_review"
  OBVIOUS
<1>1. Replaced(d, y, c) /\ y[c] = [d[c] EXCEPT !.net = 0]
  BY DatabaseRows DEF Rows, Replaced
<1>2. Flagged(d, c, flag) = [y EXCEPT ![c].status = status]
  BY <1>s, Zenon DEF Flagged
<1> HIDE DEF y
<1>3. /\ Replaced(y, Flagged(d, c, flag), c)
      /\ Flagged(d, c, flag)[c] = [y[c] EXCEPT !.status = status]
  BY <1>1, <1>2 DEF Rows, Replaced
<1>4. Replaced(d, Flagged(d, c, flag), c)
  BY <1>1, <1>3 DEF Replaced
<1>5. Flagged(d, c, flag)[c] = [[d[c] EXCEPT !.net = 0] EXCEPT !.status = status]
  BY <1>1, <1>3, Zenon
<1> QED
  BY <1>s, <1>4, <1>5, Zenon

LEMMA FlaggedLocal ==
  ASSUME NEW d \in Database, NEW d2 \in Database, NEW c \in Ids, d2[c] = d[c], NEW flag
  PROVE  Local(d, Flagged(d, c, flag), d2, Flagged(d2, c, flag))
<1>a. PICK u :
        /\ u = IF flag # NoFlag THEN flag
               ELSE IF d[c].parent # None THEN "approved" ELSE "pending_review"
        /\ Flagged(d, c, flag)[c] = [[d[c] EXCEPT !.net = 0] EXCEPT !.status = u]
  BY FlaggedReplaced, Zenon
<1>b. PICK v :
        /\ v = IF flag # NoFlag THEN flag
               ELSE IF d2[c].parent # None THEN "approved" ELSE "pending_review"
        /\ Flagged(d2, c, flag)[c] = [[d2[c] EXCEPT !.net = 0] EXCEPT !.status = v]
  BY FlaggedReplaced, Zenon
<1>1. Flagged(d2, c, flag)[c] = Flagged(d, c, flag)[c]
  <2>1. u = v
    BY <1>a, <1>b
  <2> QED
    BY <1>a, <1>b, <2>1, Zenon
<1>2. Replaced(d, Flagged(d, c, flag), c) /\ Replaced(d2, Flagged(d2, c, flag), c)
  BY FlaggedReplaced
<1> QED
  BY <1>1, <1>2 DEF Local, Replaced

LEMMA EffectMoves ==
  ASSUME NEW d \in Database, NEW d2 \in Database, NEW e, NEW e2, Moves(d, e, d2, e2),
         NEW k \in Commands, NEW held \in SUBSET Approvals, Effect(d, e, k, held),
         d2[k.id] = d[k.id], \A a \in held : Alike(d, d2, a),
         k.id \in Approvals => k.id \in held,
         k.op = "link" => k.to \in held,
         k.op \notin Creates /\ k.id \in Cancellations => d[k.id].parent \in held \cup {None}
  PROVE  Effect(d2, e2, k, held)
<1>t. k.id \in Ids /\ k.flag \in Flags \cup {NoFlag}
  BY CommandType
<1>p. Present(d2, k.id) = Present(d, k.id)
  BY DEF Present
<1>1. CASE Approves(d, e, k)
  <2>1. Alike(d, d2, k.id) /\ k.id \in Approvals
    BY <1>1 DEF Approves
  <2>2. ApprovalOk(d2, k.id, k.units, k.cur, k.at) = ApprovalOk(d, k.id, k.units, k.cur, k.at)
    BY <2>1, AlikePlan DEF ApprovalOk
  <2>w. PICK all \in BOOLEAN : all = TRUE
    OBVIOUS
  <2>3. Local(d, WriteChain(d, k.id, k.units, k.cur, k.at, k.at, k.flag, all),
              d2, WriteChain(d2, k.id, k.units, k.cur, k.at, k.at, k.flag, all))
    BY <2>1, WriteChainLocal
  <2>4. Local(d, e, d2, WithApproval(d2, k.id, k.units, k.cur, k.at, k.flag))
    BY <1>1, <2>w, <2>3, Zenon DEF Approves, WithApproval
  <2>5. e2 = WithApproval(d2, k.id, k.units, k.cur, k.at, k.flag)
    BY <2>4, LocalMoves
  <2>6. Approves(d2, e2, k)
    BY <1>1, <1>p, <2>2, <2>5, Zenon DEF Approves
  <2> QED
    BY <2>6 DEF Effect
<1>2. CASE Cancels(d, e, k, held)
  <2> DEFINE x == WithCancellation(d, k.id, k.units, k.cur, k.at)
             x2 == WithCancellation(d2, k.id, k.units, k.cur, k.at)
  <2>1. k.id \in Cancellations
    BY <1>2 DEF Cancels
  <2>2. Replaced(d, x, k.id) /\ Replaced(d2, x2, k.id) /\ x2[k.id] = x[k.id]
    BY <2>1, WithCancellationReplaced
  <2>3. CASE e = x
    <3>1. Local(d, x, d2, x2)
      BY <2>2 DEF Local, Replaced
    <3>2. e2 = x2
      BY <2>3, <3>1, LocalMoves
    <3>3. Cancels(d2, e2, k, held)
      BY <1>2, <1>p, <3>2, Zenon DEF Cancels
    <3> QED
      BY <3>3 DEF Effect
  <2>4. CASE \E a \in held :
             /\ a = k.to \/ (k.to = None /\ <<k.id, a>> \in Identity)
             /\ LinkOk(x, k.id, None, a)
             /\ e = Linked(x, k.id, None, a)
    <3>1. PICK a \in held :
             /\ a = k.to \/ (k.to = None /\ <<k.id, a>> \in Identity)
             /\ LinkOk(x, k.id, None, a)
             /\ e = Linked(x, k.id, None, a)
      BY <2>4, Zenon
    <3>2. a \in Approvals /\ Alike(d, d2, a)
      OBVIOUS
    <3> DEFINE previous == None
    <3>3. previous \in Approvals \cup {None} /\ (previous # None => Alike(d, d2, previous))
      OBVIOUS
    <3> HIDE DEF x, x2, previous
    <3>4. /\ LinkOk(x2, k.id, previous, a) = LinkOk(x, k.id, previous, a)
          /\ Local(d, Linked(x, k.id, previous, a), d2, Linked(x2, k.id, previous, a))
      BY <2>1, <2>2, <3>2, <3>3, LinkedLocal
    <3>5. e2 = Linked(x2, k.id, None, a)
      BY <3>1, <3>4, LocalMoves DEF previous
    <3>6. LinkOk(x2, k.id, None, a)
      BY <3>1, <3>4 DEF previous
    <3>7. Cancels(d2, e2, k, held)
      BY <1>2, <1>p, <3>1, <3>5, <3>6, Zenon DEF Cancels, x2
    <3> QED
      BY <3>7 DEF Effect
  <2> QED
    BY <1>2, <2>3, <2>4 DEF Cancels
<1>3. CASE Links(d, e, k)
  <2> DEFINE c == k.id
             previous == d[k.id].parent
             a == k.to
  <2>1. /\ c \in Cancellations /\ c \in Ids /\ k.op = "link" /\ a \in Approvals /\ Alike(d, d2, a)
        /\ previous \in Approvals \cup {None} /\ (previous # None => Alike(d, d2, previous))
    BY <1>3, <1>t DEF Links, Creates
  <2>2. Replaced(d, d, c) /\ Replaced(d2, d2, c)
    BY DatabaseRows DEF Replaced
  <2>3. d2[c].parent = previous /\ d2[c] = d[c]
    OBVIOUS
  <2>4. LinkOk(d, c, previous, a) /\ e = Linked(d, c, previous, a)
    BY <1>3, Zenon DEF Links
  <2> HIDE DEF c, previous, a
  <2>5. /\ LinkOk(d2, c, previous, a) = LinkOk(d, c, previous, a)
        /\ Local(d, Linked(d, c, previous, a), d2, Linked(d2, c, previous, a))
    BY <2>1, <2>2, <2>3, LinkedLocal
  <2>6. e2 = Linked(d2, c, previous, a)
    BY <2>4, <2>5, LocalMoves
  <2>7. Links(d2, e2, k)
    BY <1>3, <1>p, <2>3, <2>4, <2>5, <2>6, Zenon DEF Links, c, a
  <2> QED
    BY <2>7 DEF Effect
<1>r. ASSUME k.id \in Cancellations, k.op \notin Creates
      PROVE  /\ d[k.id].parent \in Approvals \cup {None}
             /\ d[k.id].parent # None => Alike(d, d2, d[k.id].parent)
  BY <1>r
<1>4. CASE Unlinks(d, e, k)
  <2> DEFINE c == k.id
             x == Detached(d, c)
             x2 == Detached(d2, c)
  <2>1. c \in Cancellations /\ k.op \notin Creates
    BY <1>4 DEF Unlinks, Creates
  <2>2. Replaced(d, x, c) /\ Replaced(d2, x2, c)
    BY <1>t, DetachedReplaced
  <2>3. x2[c] = x[c]
    <3>1. x[c] = [[d[c] EXCEPT !.parent = None] EXCEPT !.status = "pending_review"]
      BY <1>t, DetachedReplaced
    <3>2. x2[c] = [[d2[c] EXCEPT !.parent = None] EXCEPT !.status = "pending_review"]
      BY <1>t, DetachedReplaced
    <3> QED
      BY <3>1, <3>2, Zenon
  <2>4. RestoreOk(d, x, c) /\ e = Restored(d, x, c) /\ d2[c] = d[c]
    BY <1>4, Zenon DEF Unlinks
  <2> HIDE DEF x, x2
  <2>5. /\ RestoreOk(d2, x2, c) = RestoreOk(d, x, c)
        /\ Local(d, Restored(d, x, c), d2, Restored(d2, x2, c))
    BY <1>r, <2>1, <2>2, <2>3, RestoredLocal
  <2>6. e2 = Restored(d2, x2, c)
    BY <2>4, <2>5, LocalMoves
  <2>7. Unlinks(d2, e2, k)
    BY <1>4, <1>p, <2>4, <2>5, <2>6, Zenon DEF Unlinks, x2
  <2> QED
    BY <2>7 DEF Effect
<1>5. CASE Removes(d, e, k)
  <2> DEFINE c == k.id
             x == Erased(d, c)
             x2 == Erased(d2, c)
  <2>1. c \in Cancellations /\ k.op \notin Creates
    BY <1>5 DEF Removes, Creates
  <2>2. Replaced(d, x, c) /\ Replaced(d2, x2, c) /\ x2[c] = x[c]
    BY <1>t, ErasedReplaced
  <2>4. RestoreOk(d, x, c) /\ e = Restored(d, x, c) /\ d2[c] = d[c]
    BY <1>5, Zenon DEF Removes
  <2> HIDE DEF x, x2
  <2>5. /\ RestoreOk(d2, x2, c) = RestoreOk(d, x, c)
        /\ Local(d, Restored(d, x, c), d2, Restored(d2, x2, c))
    BY <1>r, <2>1, <2>2, RestoredLocal
  <2>6. e2 = Restored(d2, x2, c)
    BY <2>4, <2>5, LocalMoves
  <2>7. Removes(d2, e2, k)
    BY <1>5, <1>p, <2>4, <2>5, <2>6, Zenon DEF Removes, x2
  <2> QED
    BY <2>7 DEF Effect
<1>6. CASE RemovesApproval(d, e, k)
  <2>1. Alike(d, d2, k.id) /\ e = Erased(d, k.id)
    BY <1>6 DEF RemovesApproval
  <2>2. Local(d, Erased(d, k.id), d2, Erased(d2, k.id))
    BY <1>t, ErasedReplaced DEF Local, Replaced
  <2>3. e2 = Erased(d2, k.id)
    BY <2>1, <2>2, LocalMoves
  <2>4. RemovesApproval(d2, e2, k)
    BY <1>6, <1>p, <2>1, <2>3 DEF RemovesApproval, Alike
  <2> QED
    BY <2>4 DEF Effect
<1>7. CASE ReviewsApproval(d, e, k)
  <2>w. PICK all \in BOOLEAN : all = FALSE
    OBVIOUS
  <2>1. Alike(d, d2, k.id) /\ k.id \in Approvals
    BY <1>7 DEF ReviewsApproval
  <2>2. /\ RecalcOk(d2, k.id) = RecalcOk(d, k.id)
        /\ Local(d, Recalculate(d, k.id, k.flag, all), d2, Recalculate(d2, k.id, k.flag, all))
    BY <2>1, RecalculateLocal
  <2>3. Local(d, e, d2, Recalculate(d2, k.id, k.flag, FALSE))
    BY <1>7, <2>w, <2>2, Zenon DEF ReviewsApproval
  <2>4. e2 = Recalculate(d2, k.id, k.flag, FALSE)
    BY <2>3, LocalMoves
  <2>5. ReviewsApproval(d2, e2, k)
    BY <1>7, <1>p, <2>2, <2>4, Zenon DEF ReviewsApproval
  <2> QED
    BY <2>5 DEF Effect
<1>8. CASE ReviewsCancellation(d, e, k)
  <2>1. e = Flagged(d, k.id, k.flag)
    BY <1>8 DEF ReviewsCancellation
  <2>2. Local(d, e, d2, Flagged(d2, k.id, k.flag))
    BY <1>t, <2>1, FlaggedLocal
  <2>3. e2 = Flagged(d2, k.id, k.flag)
    BY <2>2, LocalMoves
  <2>4. ReviewsCancellation(d2, e2, k)
    BY <1>8, <1>p, <2>3, Zenon DEF ReviewsCancellation
  <2> QED
    BY <2>4 DEF Effect
<1>9. CASE Amends(d, e, k)
  <2> DEFINE units == Fact(d, k, "units")
             cur == Fact(d, k, "cur")
             at == Fact(d, k, "at")
  <2>w. PICK all \in BOOLEAN : all = TRUE
    OBVIOUS
  <2>1. Alike(d, d2, k.id) /\ k.id \in Approvals
    BY <1>9 DEF Amends
  <2>2. /\ Fact(d2, k, "units") = units /\ Fact(d2, k, "cur") = cur /\ Fact(d2, k, "at") = at
        /\ Fact(d, k, "units") = units /\ Fact(d, k, "cur") = cur /\ Fact(d, k, "at") = at
    BY Zenon DEF Fact
  <2> HIDE DEF units, cur, at
  <2>3. /\ Amended(d, k) = WriteChain(d, k.id, units, cur, at, at, k.flag, all)
        /\ Amended(d2, k) = WriteChain(d2, k.id, units, cur, at, at, k.flag, all)
    BY <2>w, <2>2, Zenon DEF Amended
  <2>4. /\ AmendOk(d, k) = PlanOk(d, k.id, units, cur, at)
        /\ AmendOk(d2, k) = PlanOk(d2, k.id, units, cur, at)
    BY <2>2, Zenon DEF AmendOk
  <2>5. AmendOk(d2, k) = AmendOk(d, k)
    BY <2>1, <2>4, AlikePlan
  <2>6. Local(d, Amended(d, k), d2, Amended(d2, k))
    BY <2>1, <2>3, WriteChainLocal
  <2>7. e2 = Amended(d2, k)
    BY <1>9, <2>6, LocalMoves DEF Amends
  <2>8. Amends(d2, e2, k)
    BY <1>9, <1>p, <2>5, <2>7, Zenon DEF Amends
  <2> QED
    BY <2>8 DEF Effect
<1>10. CASE Recalculates(d, e, k)
  <2>1. Alike(d, d2, k.id) /\ k.id \in Approvals /\ e = Recalculated(d, k.id)
    BY <1>10 DEF Recalculates
  <2>2. /\ RecalcOk(d2, k.id) = RecalcOk(d, k.id)
        /\ Local(d, Recalculated(d, k.id), d2, Recalculated(d2, k.id))
    BY <2>1, RecalculatedLocal
  <2>3. e2 = Recalculated(d2, k.id)
    BY <2>1, <2>2, LocalMoves
  <2>4. Recalculates(d2, e2, k)
    BY <1>10, <1>p, <2>2, <2>3, Zenon DEF Recalculates
  <2> QED
    BY <2>4 DEF Effect
<1> QED
  BY <1>1, <1>2, <1>3, <1>4, <1>5, <1>6, <1>7, <1>8, <1>9, <1>10 DEF Effect

-----------------------------------------------------------------------------
(* The approvals a session has locked. *)
Held(s) == {a \in Approvals : lock[a] = s}

(* Past the search, a new cancellation keeps its evidence and its rate. *)
MatchInv(s) ==
  cmd[s].op = "createCancellation" =>
    /\ pc[s] \in {"match", "parents", "child", "body"} =>
         Convertible(cmd[s].units, cmd[s].cur, cmd[s].at)
    /\ pc[s] \in {"parents", "child", "body"} =>
         \/ seen[s] = cmd[s].to
         \/ cmd[s].to = None /\ <<cmd[s].id, seen[s]>> \in Identity

(* A session about to commit would apply its command, as the ledger has it, *)
(* to the rows as they are now; and it holds the rows this depends on.      *)
EffectInv(s) ==
  pc[s] = "update" =>
    /\ lock[cmd[s].id] = s
    /\ cmd[s].op = "link" => cmd[s].to \in Held(s)
    /\ cmd[s].op \notin Creates /\ cmd[s].id \in Cancellations =>
         db[cmd[s].id].parent \in Held(s) \cup {None}
    /\ Effect(db, OwnView(s), cmd[s], Held(s))

PlanInv == \A s \in Sessions : MatchInv(s) /\ EffectInv(s)

LEMMA EffectGrows ==
  ASSUME NEW d, NEW e, NEW k, NEW held, NEW more, held \subseteq more, Effect(d, e, k, held)
  PROVE  Effect(d, e, k, more)
<1>1. Cancels(d, e, k, held) => Cancels(d, e, k, more)
  BY Zenon DEF Cancels
<1> QED
  BY <1>1 DEF Effect

LEMMA PlanKept ==
  ASSUME TypeInv, NEW u \in Sessions, MatchInv(u), EffectInv(u), Stays(u), db' = db,
         \A i \in Ids : lock[i] = u => lock'[i] = u
  PROVE  MatchInv(u)' /\ EffectInv(u)'
<1>1. MatchInv(u)'
  BY DEF MatchInv, Stays
<1>2. EffectInv(u)'
  <2> SUFFICES ASSUME pc[u] = "update" PROVE EffectInv(u)'
    BY DEF EffectInv, Stays
  <2>1. cmd[u].id \in Ids
    BY Types
  <2>2. Held(u) \subseteq Held(u)'
    BY ApprovalIsNone DEF Held
  <2>3. OwnView(u)' = OwnView(u)
    BY OwnViewKept DEF Stays
  <2>4. /\ lock[cmd[u].id] = u
        /\ cmd[u].op = "link" => cmd[u].to \in Held(u)
        /\ cmd[u].op \notin Creates /\ cmd[u].id \in Cancellations =>
             db[cmd[u].id].parent \in Held(u) \cup {None}
        /\ Effect(db, OwnView(u), cmd[u], Held(u))
    BY DEF EffectInv
  <2>5. Effect(db, OwnView(u), cmd[u], Held(u)')
    BY <2>2, <2>4, EffectGrows
  <2>6. Effect(db', OwnView(u)', cmd'[u], Held(u)')
    BY <2>3, <2>5 DEF Stays
  <2> QED
    BY <2>1, <2>2, <2>4, <2>6 DEF EffectInv, Stays
<1> QED
  BY <1>1, <1>2

LEMMA OwnPlan ==
  ASSUME TypeInv, PlanInv, NEW s \in Sessions, db' = db,
         \A u \in Sessions \ {s} : Stays(u),
         \A i \in Ids : lock'[i] = lock[i] \/ lock[i] \in {Free, s},
         MatchInv(s)', EffectInv(s)'
  PROVE  PlanInv'
<1>1. ASSUME NEW u \in Sessions \ {s} PROVE MatchInv(u)' /\ EffectInv(u)'
  <2>1. \A i \in Ids : lock[i] = u => lock'[i] = u
    BY SessionAssumption
  <2> QED
    BY <2>1, PlanKept DEF PlanInv
<1> QED
  BY <1>1 DEF PlanInv

LEMMA RollbackPlans ==
  ASSUME TypeInv, PlanInv, NEW s \in Sessions, Rollback(s)
  PROVE  PlanInv'
<1>1. /\ pc'[s] = "idle" /\ \A u \in Sessions \ {s} : Stays(u)
  BY Types DEF Rollback, Close, Stays
<1>2. db' = db /\ \A i \in Ids : lock'[i] = lock[i] \/ lock[i] \in {Free, s}
  BY DEF Rollback, Close
<1> QED
  BY <1>1, <1>2, OwnPlan DEF MatchInv, EffectInv

LEMMA BeginPlans ==
  ASSUME TypeInv, PlanInv, NEW s \in Sessions, NEW k \in Commands, Begin(s, k)
  PROVE  PlanInv'
<1>1. /\ db' = db /\ lock' = lock /\ pc'[s] \in {"insert", "observe"}
      /\ \A u \in Sessions \ {s} : Stays(u)
  BY Types DEF Begin, Goto, Stays
<1> QED
  BY <1>1, OwnPlan DEF MatchInv, EffectInv

LEMMA ObservePlans ==
  ASSUME TypeInv, LedgerInv, PlanInv, NEW s \in Sessions, Observe(s)
  PROVE  PlanInv'
<1>1. CASE Rollback(s)
  BY <1>1, RollbackPlans
<1>2. CASE ~Rollback(s)
  <2>1. /\ db' = db /\ lock' = lock /\ pc'[s] = "parents" /\ cmd' = cmd
        /\ \A u \in Sessions \ {s} : Stays(u)
    BY <1>2, Types DEF Observe, Goto, Stays
  <2>2. cmd[s].op # "createCancellation"
    BY DEF Observe, LedgerInv, SessionInv, CommandInv, Creates
  <2> QED
    BY <2>1, <2>2, OwnPlan DEF MatchInv, EffectInv
<1> QED
  BY <1>1, <1>2

(* The statements that only take a lock, or none. *)
LEMMA LockingPlans ==
  ASSUME TypeInv, PlanInv, NEW s \in Sessions,
         LockParent(s) \/ ParentsLocked(s) \/ LockChild(s)
  PROVE  PlanInv'
<1>1. /\ db' = db /\ cmd' = cmd /\ seen' = seen
      /\ pc[s] \in {"parents", "child"} /\ pc'[s] \in {"parents", "child", "body"}
      /\ \A u \in Sessions \ {s} : Stays(u)
  BY Types DEF LockParent, LockNext, ParentsLocked, LockChild, Goto, Stays
<1>2. \A i \in Ids : lock'[i] = lock[i] \/ lock[i] \in {Free, s}
  BY Types DEF LockParent, LockNext, ParentsLocked, LockChild, Acquire
<1>3. MatchInv(s)
  BY DEF PlanInv
<1>4. MatchInv(s)' /\ EffectInv(s)'
  BY <1>1, <1>3 DEF MatchInv, EffectInv
<1> QED
  BY <1>1, <1>2, <1>4, OwnPlan

LEMMA LockUpdatedPlans ==
  ASSUME TypeInv, PlanInv, NEW s \in Sessions, LockUpdated(s)
  PROVE  PlanInv'
<1>1. /\ db' = db /\ cmd' = cmd /\ pc' = pc /\ write' = write /\ pc[s] = "update"
      /\ \A u \in Sessions \ {s} : Stays(u)
  BY Types DEF LockUpdated, LockNext, Stays
<1>2. \A i \in Ids : \/ lock'[i] = lock[i]
                     \/ lock[i] \in {Free, s} /\ lock'[i] = s
  BY Types DEF LockUpdated, LockNext, Acquire
<1>3. MatchInv(s)'
  BY <1>1 DEF MatchInv
<1>4. EffectInv(s)'
  <2>1. cmd[s].id \in Ids
    BY Types
  <2>2. Held(s) \subseteq Held(s)'
    BY <1>2, ApprovalIsNone DEF Held
  <2>3. OwnView(s)' = OwnView(s)
    BY <1>1, OwnViewKept
  <2>4. /\ lock[cmd[s].id] = s
        /\ cmd[s].op = "link" => cmd[s].to \in Held(s)
        /\ cmd[s].op \notin Creates /\ cmd[s].id \in Cancellations =>
             db[cmd[s].id].parent \in Held(s) \cup {None}
        /\ Effect(db, OwnView(s), cmd[s], Held(s))
    BY <1>1 DEF PlanInv, EffectInv
  <2>5. Effect(db, OwnView(s), cmd[s], Held(s)')
    BY <2>2, <2>4, EffectGrows
  <2>6. Effect(db', OwnView(s)', cmd'[s], Held(s)')
    BY <1>1, <2>3, <2>5
  <2> QED
    BY <1>1, <1>2, <2>1, <2>2, <2>4, <2>6 DEF EffectInv
<1> QED
  BY <1>1, <1>2, <1>3, <1>4, OwnPlan

LEMMA InsertApprovalPlans ==
  ASSUME TypeInv, LedgerInv, PlanInv, NEW s \in Sessions, InsertApproval(s)
  PROVE  PlanInv'
<1> DEFINE k == cmd[s]
           a == k.id
           image == WithApproval(db, a, k.units, k.cur, k.at, k.flag)
<1>o. pc[s] = "insert" /\ k.op = "createApproval"
  BY DEF InsertApproval, At
<1>t. k \in Commands /\ a \in Approvals /\ a \in Ids /\ a \notin Cancellations
  BY <1>o, Types, CommandType, ApprovalIsNone
<1>1. CASE ~(~Present(db, a) /\ a \notin deleted /\ ApprovalOk(db, a, k.units, k.cur, k.at))
  <2>1. Rollback(s)
    BY <1>1, Zenon DEF InsertApproval
  <2> QED
    BY <2>1, RollbackPlans
<1>2. CASE ~Present(db, a) /\ a \notin deleted /\ ApprovalOk(db, a, k.units, k.cur, k.at)
  <2>n. \A i \in Ids : write[s][i] = Keep
    BY <1>o, NothingWritten DEF Late
  <2>1. /\ lock[a] = Free /\ lock' = [lock EXCEPT ![a] = s]
        /\ write' = [write EXCEPT ![s] = [write[s] EXCEPT ![a] = image[a]]]
        /\ pc' = [pc EXCEPT ![s] = "update"]
        /\ UNCHANGED <<db, deleted, cmd, seen, todo, started>>
    BY <1>2, Zenon DEF InsertApproval, Goto
  <2>c. Children(db, a) = {}
    <3>1. AllGood(db)
      BY DEF LedgerInv
    <3> QED
      BY <1>2, <1>t, <3>1 DEF AllGood, Good, Sound
  <2>2. Rows(image) /\ \A i \in Ids : i # a => image[i] = db[i]
    BY <2>c DEF WithApproval, WriteChain, Rows
  <2>r. image[a] # Keep
    <3>1. LedgerInv'
      BY InsertApprovalKeeps
    <3>2. PICK b \in Ids : b = a
      BY <1>t
    <3>3. Own(s, b)' /\ write'[s][b] = image[a]
      BY <1>o, <3>2, <2>1, Types DEF Own, Late, Creates
    <3>4. write'[s][b] \in Row
      BY <3>1, <3>3 DEF LedgerInv, SessionInv, CommandInv
    <3> QED
      BY <3>3, <3>4, RowAssumption
  <2> HIDE DEF image
  <2>3. /\ write'[s][a] = image[a] /\ \A i \in Ids : i # a => write'[s][i] = Keep
        /\ lock'[a] = s /\ pc'[s] = "update" /\ cmd'[s] = k /\ db' = db
        /\ \A u \in Sessions \ {s} : Stays(u)
    BY <1>t, <2>1, <2>n, Types DEF Stays
  <2>4. OwnView(s)' = image
    <3>1. \A i \in Ids : OwnView(s)'[i] = image[i]
      BY <2>2, <2>3, <2>r DEF OwnView
    <3> QED
      BY <2>2, <3>1 DEF OwnView, Rows
  <2>5. Approves(db, image, k)
    BY <1>2, <1>o, <1>t, Zenon DEF Approves, image
  <2>6. EffectInv(s)'
    BY <1>o, <2>3, <2>4, <2>5 DEF EffectInv, Effect, Creates
  <2>7. MatchInv(s)'
    BY <2>3 DEF MatchInv
  <2>8. \A i \in Ids : lock'[i] = lock[i] \/ lock[i] \in {Free, s}
    BY <1>t, <2>1, Types
  <2> QED
    BY <2>3, <2>6, <2>7, <2>8, OwnPlan
<1> QED
  BY <1>1, <1>2

LEMMA InsertCancellationPlans ==
  ASSUME TypeInv, LedgerInv, PlanInv, NEW s \in Sessions, InsertCancellation(s)
  PROVE  PlanInv'
<1> DEFINE k == cmd[s]
<1>1. CASE ~(~Present(db, k.id) /\ k.id \notin deleted /\ Convertible(k.units, k.cur, k.at))
  <2>1. Rollback(s)
    BY <1>1, Zenon DEF InsertCancellation
  <2> QED
    BY <2>1, RollbackPlans
<1>2. CASE ~Present(db, k.id) /\ k.id \notin deleted /\ Convertible(k.units, k.cur, k.at)
  <2>t. k.id \in Ids
    BY Types
  <2>1. /\ lock[k.id] = Free /\ lock' = [lock EXCEPT ![k.id] = s]
        /\ pc' = [pc EXCEPT ![s] = "match"] /\ cmd' = cmd /\ db' = db
        /\ \A u \in Sessions \ {s} : Stays(u)
    BY <1>2, Types DEF InsertCancellation, Goto, Stays
  <2>2. MatchInv(s)' /\ EffectInv(s)'
    BY <1>2, <2>1, Types DEF MatchInv, EffectInv
  <2>3. \A i \in Ids : lock'[i] = lock[i] \/ lock[i] \in {Free, s}
    BY <2>t, <2>1, Types
  <2> QED
    BY <2>1, <2>2, <2>3, OwnPlan
<1> QED
  BY <1>1, <1>2

(* What a session sees after its insert of a cancellation is the ledger    *)
(* with that cancellation.                                                 *)
LEMMA InsertedView ==
  ASSUME TypeInv, LedgerInv, NEW s \in Sessions, pc[s] \in {"match", "parents", "child", "body"},
         cmd[s].op \in Creates
  PROVE  OwnView(s) = WithCancellation(db, cmd[s].id, cmd[s].units, cmd[s].cur, cmd[s].at)
<1> DEFINE c == cmd[s].id
           x == WithCancellation(db, c, cmd[s].units, cmd[s].cur, cmd[s].at)
<1>1. /\ c \in Cancellations /\ c \in Ids /\ OwnView(s)[c] = write[s][c] /\ Own(s, c)
      /\ \A i \in Ids : i # c => OwnView(s)[i] = db[i]
  BY InsertSeen DEF Ids
<1>2. write[s][c] = NewCancellation(cmd[s].units, cmd[s].cur, cmd[s].at)
  BY <1>1 DEF LedgerInv, SessionInv, CommandInv
<1>3. Replaced(db, x, c) /\ x[c] = NewCancellation(cmd[s].units, cmd[s].cur, cmd[s].at)
  BY <1>1, Types, WithCancellationReplaced
<1> HIDE DEF x
<1>4. \A i \in Ids : OwnView(s)[i] = x[i]
  BY <1>1, <1>2, <1>3 DEF Replaced
<1>5. OwnView(s) = x
  BY <1>3, <1>4 DEF Replaced, Rows, OwnView
<1> QED
  BY <1>5 DEF x

LEMMA MatchPlans ==
  ASSUME TypeInv, LedgerInv, PlanInv, NEW s \in Sessions, MatchApproval(s)
  PROVE  PlanInv'
<1> DEFINE k == cmd[s]
           c == k.id
<1>1. /\ pc[s] = "match" /\ db' = db /\ lock' = lock /\ cmd'[s] = k /\ write'[s] = write[s]
      /\ \A u \in Sessions \ {s} : Stays(u)
  BY Types DEF MatchApproval, Goto, Stays
<1>2. k.op \in Creates
  BY <1>1 DEF LedgerInv, SessionInv, CommandInv
<1>3. k.op = "createCancellation" /\ c \in Cancellations /\ lock[c] = s /\ ~Present(db, c)
  BY <1>1, <1>2, InsertSeen
<1>4. Convertible(k.units, k.cur, k.at)
  BY <1>1, <1>3 DEF PlanInv, MatchInv
<1>5. CASE Cardinality(Matches(s)) = 1
  <2>1. seen'[s] = (CHOOSE a \in Matches(s) : TRUE) /\ pc'[s] = "parents"
    BY <1>5, Types DEF MatchApproval, Goto
  <2>2. Matches(s) # {}
    BY <1>5, FS_EmptySet
  <2>3. seen'[s] \in Matches(s)
    BY <2>1, <2>2
  <2>4. seen'[s] = k.to \/ (k.to = None /\ <<c, seen'[s]>> \in Identity)
    BY <2>3 DEF Matches, Candidates
  <2>5. MatchInv(s)' /\ EffectInv(s)'
    BY <1>1, <1>4, <2>1, <2>4 DEF MatchInv, EffectInv
  <2> QED
    BY <1>1, <2>5, OwnPlan
<1>6. CASE Cardinality(Matches(s)) # 1
  <2>1. pc'[s] = "update"
    BY <1>6, Types DEF MatchApproval, Goto
  <2>2. OwnView(s)' = WithCancellation(db, c, k.units, k.cur, k.at)
    <3>1. OwnView(s)' = OwnView(s)
      BY <1>1, OwnViewKept
    <3> QED
      BY <1>1, <1>2, <3>1, InsertedView
  <2>3. Cancels(db, OwnView(s)', k, Held(s)')
    BY <1>3, <1>4, <2>2, Zenon DEF Cancels
  <2>4. EffectInv(s)'
    BY <1>1, <1>2, <1>3, <2>3 DEF EffectInv, Effect, Creates
  <2>5. MatchInv(s)'
    BY <2>1 DEF MatchInv
  <2> QED
    BY <1>1, <2>4, <2>5, OwnPlan
<1> QED
  BY <1>5, <1>6

(* A body that holds what its plan depends on. *)
LEMMA PrepareIfPlans ==
  ASSUME TypeInv, LedgerInv, PlanInv, NEW s \in Sessions, pc[s] = "body", NEW ok, NEW image,
         NEW touched, PrepareIf(s, ok, image, touched),
         ok => /\ Covered(s, image, touched)
               /\ lock[cmd[s].id] = s
               /\ cmd[s].op = "link" => cmd[s].to \in Held(s)
               /\ cmd[s].op \notin Creates /\ cmd[s].id \in Cancellations =>
                    db[cmd[s].id].parent \in Held(s) \cup {None}
               /\ Effect(db, image, cmd[s], Held(s))
  PROVE  PlanInv'
<1>1. CASE ~ok
  BY <1>1, RollbackPlans DEF PrepareIf
<1>2. CASE ok
  <2>1. /\ db' = db /\ lock' = lock /\ pc'[s] = "update" /\ cmd'[s] = cmd[s]
        /\ write'[s] = [i \in Ids |-> IF i \in touched THEN image[i] ELSE Keep]
        /\ \A u \in Sessions \ {s} : Stays(u)
    BY <1>2, Types DEF PrepareIf, Prepare, Stays
  <2>2. /\ image \in Database /\ \A i \in Ids \ touched : image[i] = OwnView(s)[i]
        /\ \A i \in Ids : Own(s, i) => i \in touched
    BY <1>2 DEF Covered
  <2>3. \A i \in Ids : image[i] # Keep
    BY <2>2, RowAssumption DEF Database
  <2>4. \A i \in Ids : i \notin touched => write[s][i] = Keep
    BY <2>2 DEF LedgerInv, SessionInv, CommandInv
  <2>5. \A i \in Ids : OwnView(s)'[i] = image[i]
    BY <2>1, <2>2, <2>3, <2>4 DEF OwnView
  <2>6. OwnView(s)' = image
    BY <2>2, <2>5, DatabaseRows DEF OwnView, Rows
  <2>7. Held(s)' = Held(s)
    BY <2>1 DEF Held
  <2>8. EffectInv(s)'
    BY <1>2, <2>1, <2>6, <2>7 DEF EffectInv
  <2>9. MatchInv(s)'
    BY <2>1 DEF MatchInv
  <2> QED
    BY <2>1, <2>8, <2>9, OwnPlan
<1> QED
  BY <1>1, <1>2

LEMMA LinkInsertedPlans ==
  ASSUME TypeInv, LedgerInv, PlanInv, NEW s \in Sessions, LinkInserted(s)
  PROVE  PlanInv'
<1> DEFINE k == cmd[s]
           c == k.id
           d == OwnView(s)
           a == seen[s]
           ok == LinkOk(d, c, None, a)
           image == Linked(d, c, None, a)
           touched == LinkTouched(d, c, None, a)
<1>1. pc[s] = "body" /\ k.op = "createCancellation" /\ k.op \in Creates
  BY DEF LinkInserted, At, Creates
<1>2. PrepareIf(s, ok, image, touched)
  BY Zenon DEF LinkInserted
<1>3. ok => Covered(s, image, touched)
  BY LinkInsertedCovered
<1>4. c \in Cancellations /\ lock[c] = s /\ ~Present(db, c) /\ \A i \in Ids : i # c => d[i] = db[i]
  BY <1>1, InsertSeen
<1>5. d = WithCancellation(db, c, k.units, k.cur, k.at)
  BY <1>1, InsertedView
<1>6. /\ Convertible(k.units, k.cur, k.at)
      /\ a = k.to \/ (k.to = None /\ <<c, a>> \in Identity)
  BY <1>1 DEF PlanInv, MatchInv
<1>7. ok => a \in Held(s)
  <2> SUFFICES ASSUME ok PROVE a \in Held(s)
    OBVIOUS
  <2>1. a \in Approvals /\ a \in Ids /\ a # c /\ Present(d, a)
    BY <1>4, ApprovalIsNone DEF LinkOk
  <2>2. Present(db, a) /\ a \in Chains(s)
    BY <1>1, <1>4, <2>1 DEF Present, Chains
  <2> QED
    BY <1>1, <2>1, <2>2, BodyHolds DEF Held
<1>8. ok => Effect(db, image, k, Held(s))
  <2> SUFFICES ASSUME ok PROVE Cancels(db, image, k, Held(s))
    BY DEF Effect
  <2> HIDE DEF a, d
  <2> QED
    BY <1>1, <1>4, <1>5, <1>6, <1>7, Zenon DEF Cancels
<1> HIDE DEF ok, image, touched
<1> QED
  BY <1>1, <1>2, <1>3, <1>4, <1>8, PrepareIfPlans

LEMMA LinkCancellationPlans ==
  ASSUME TypeInv, LedgerInv, PlanInv, NEW s \in Sessions, LinkCancellation(s)
  PROVE  PlanInv'
<1> DEFINE k == cmd[s]
           c == k.id
           a == k.to
           ok == Unchanged(s) /\ LinkOk(db, c, seen[s], a)
           image == Linked(db, c, seen[s], a)
           touched == LinkTouched(db, c, seen[s], a)
<1>1. pc[s] = "body" /\ k.op = "link" /\ k.op \notin Creates
  BY DEF LinkCancellation, At, Creates
<1>2. PrepareIf(s, ok, image, touched)
  BY Zenon DEF LinkCancellation
<1>3. ok => Covered(s, image, touched)
  BY LinkCancellationCovered
<1>4. ok => /\ c \in Cancellations /\ Present(db, c) /\ lock[c] = s /\ db[c].parent = seen[s]
            /\ db[c].parent \in Held(s) \cup {None}
  BY <1>1, ParentHeld DEF Held
<1>5. ok => a \in Held(s)
  <2> SUFFICES ASSUME ok PROVE a \in Held(s)
    OBVIOUS
  <2>1. a \in Approvals /\ Present(db, a)
    BY DEF LinkOk
  <2>2. a \in Chains(s)
    BY <1>1, <2>1 DEF Chains
  <2> QED
    BY <1>1, <2>1, <2>2, BodyHolds DEF Held
<1>6. ok => Effect(db, image, k, Held(s))
  BY <1>1, <1>4 DEF Effect, Links
<1> HIDE DEF ok, image, touched
<1> QED
  BY <1>1, <1>2, <1>3, <1>4, <1>5, <1>6, PrepareIfPlans

LEMMA UnlinkCancellationPlans ==
  ASSUME TypeInv, LedgerInv, PlanInv, NEW s \in Sessions, UnlinkCancellation(s)
  PROVE  PlanInv'
<1> DEFINE c == cmd[s].id
           d == Detached(db, c)
           ok == Unchanged(s) /\ seen[s] # None /\ RestoreOk(db, d, c)
           image == Restored(db, d, c)
           touched == RestoreTouched(db, d, c)
<1>1. pc[s] = "body" /\ cmd[s].op = "unlink" /\ cmd[s].op \notin Creates
  BY DEF UnlinkCancellation, At, Creates
<1>2. PrepareIf(s, ok, image, touched)
  BY Zenon DEF UnlinkCancellation
<1>3. ok => Covered(s, image, touched)
  BY UnlinkCancellationCovered
<1>4. ok => /\ c \in Cancellations /\ Present(db, c) /\ lock[c] = s /\ db[c].parent = seen[s]
            /\ db[c].parent \in Held(s) \cup {None}
  BY <1>1, ParentHeld DEF Held
<1>5. ok => Effect(db, image, cmd[s], Held(s))
  BY <1>1, <1>4 DEF Effect, Unlinks
<1> HIDE DEF ok, image, touched
<1> QED
  BY <1>1, <1>2, <1>3, <1>4, <1>5, PrepareIfPlans

LEMMA RemoveCancellationPlans ==
  ASSUME TypeInv, LedgerInv, PlanInv, NEW s \in Sessions, RemoveCancellation(s)
  PROVE  PlanInv'
<1> DEFINE c == cmd[s].id
           d == Erased(db, c)
           ok == Unchanged(s) /\ RestoreOk(db, d, c)
           image == Restored(db, d, c)
           touched == RestoreTouched(db, d, c)
<1>1. /\ pc[s] = "body" /\ cmd[s].op \in {"removeCancellation", "removeTransaction"}
      /\ cmd[s].op \notin Creates
  BY DEF RemoveCancellation, At, Creates
<1>2. PrepareIf(s, ok, image, touched)
  BY Zenon DEF RemoveCancellation
<1>3. ok => Covered(s, image, touched)
  BY RemoveCancellationCovered
<1>4. ok => /\ c \in Cancellations /\ Present(db, c) /\ lock[c] = s
            /\ db[c].parent \in Held(s) \cup {None}
  BY <1>1, ParentHeld DEF Held
<1>5. ok => Effect(db, image, cmd[s], Held(s))
  BY <1>1, <1>4 DEF Effect, Removes
<1> HIDE DEF ok, image, touched
<1> QED
  BY <1>1, <1>2, <1>3, <1>4, <1>5, PrepareIfPlans

LEMMA FlagCancellationPlans ==
  ASSUME TypeInv, LedgerInv, PlanInv, NEW s \in Sessions, FlagCancellation(s)
  PROVE  PlanInv'
<1> DEFINE k == cmd[s]
           c == k.id
           ok == Unchanged(s) /\ Reviewable(c, k.flag)
           image == Flagged(db, c, k.flag)
<1>1. /\ pc[s] = "body" /\ k.op = "setReviewFlag" /\ k.op \notin Creates
  BY DEF FlagCancellation, At, Creates
<1>2. PrepareIf(s, ok, image, {c})
  BY Zenon DEF FlagCancellation
<1>3. ok => Covered(s, image, {c})
  BY FlagCancellationCovered
<1>4. ok => /\ c \in Cancellations /\ Present(db, c) /\ lock[c] = s
            /\ db[c].parent \in Held(s) \cup {None}
  BY <1>1, ParentHeld DEF Held
<1>5. ok => Effect(db, image, cmd[s], Held(s))
  BY <1>1, <1>4 DEF Effect, ReviewsCancellation, Reviewable
<1> HIDE DEF ok, image
<1> QED
  BY <1>1, <1>2, <1>3, <1>4, <1>5, PrepareIfPlans

(* The bodies of an approval hold the approval itself. *)
LEMMA ApprovalHeld ==
  ASSUME TypeInv, LedgerInv, NEW s \in Sessions, pc[s] = "body",
         cmd[s].id \in Approvals, Present(db, cmd[s].id), cmd[s].op \notin Creates
  PROVE  lock[cmd[s].id] = s /\ cmd[s].id \notin Cancellations
<1>1. cmd[s].id \in Chains(s)
  BY DEF Chains
<1> QED
  BY <1>1, BodyHolds, ApprovalIsNone

LEMMA RemoveApprovalPlans ==
  ASSUME TypeInv, LedgerInv, PlanInv, NEW s \in Sessions, RemoveApproval(s)
  PROVE  PlanInv'
<1> DEFINE a == cmd[s].id
           ok == Present(db, a) /\ Children(db, a) = {}
           image == Erased(db, a)
<1>1. pc[s] = "body" /\ cmd[s].op = "removeTransaction" /\ cmd[s].op \notin Creates /\ a \in Approvals
  BY DEF RemoveApproval, At, Creates
<1>2. PrepareIf(s, ok, image, {a})
  BY Zenon DEF RemoveApproval
<1>3. ok => Covered(s, image, {a})
  BY RemoveApprovalCovered
<1>4. ok => lock[a] = s /\ a \notin Cancellations
  BY <1>1, ApprovalHeld
<1>5. ok => Effect(db, image, cmd[s], Held(s))
  BY <1>1 DEF Effect, RemovesApproval
<1> HIDE DEF ok, image
<1> QED
  BY <1>1, <1>2, <1>3, <1>4, <1>5, PrepareIfPlans

LEMMA FlagApprovalPlans ==
  ASSUME TypeInv, LedgerInv, PlanInv, NEW s \in Sessions, FlagApproval(s)
  PROVE  PlanInv'
<1> DEFINE k == cmd[s]
           a == k.id
           ok == Present(db, a) /\ Reviewable(a, k.flag) /\ RecalcOk(db, a)
           image == Recalculate(db, a, k.flag, FALSE)
<1>1. pc[s] = "body" /\ k.op = "setReviewFlag" /\ k.op \notin Creates /\ a \in Approvals
  BY DEF FlagApproval, At, Creates
<1>2. PrepareIf(s, ok, image, {a})
  BY Zenon DEF FlagApproval
<1>3. ok => Covered(s, image, {a})
  BY FlagApprovalCovered, Zenon
<1>4. ok => lock[a] = s /\ a \notin Cancellations
  BY <1>1, ApprovalHeld
<1>5. ok => Effect(db, image, cmd[s], Held(s))
  BY <1>1, Zenon DEF Effect, ReviewsApproval, Reviewable
<1> HIDE DEF ok, image
<1> QED
  BY <1>1, <1>2, <1>3, <1>4, <1>5, PrepareIfPlans

LEMMA AmendApprovalPlans ==
  ASSUME TypeInv, LedgerInv, PlanInv, NEW s \in Sessions, AmendApproval(s)
  PROVE  PlanInv'
<1> DEFINE k == cmd[s]
           ok == Present(db, k.id) /\ k.id \in Approvals /\ AmendOk(db, k)
           image == Amended(db, k)
           touched == {k.id} \cup Children(db, k.id)
<1>1. pc[s] = "body" /\ k.op = "amend" /\ k.op \notin Creates
  BY DEF AmendApproval, At, Creates
<1>2. PrepareIf(s, ok, image, touched)
  BY Zenon DEF AmendApproval
<1>3. ok => Covered(s, image, touched)
  BY AmendApprovalCovered
<1>4. ok => lock[k.id] = s /\ k.id \notin Cancellations
  BY <1>1, ApprovalHeld
<1>5. ok => Effect(db, image, k, Held(s))
  BY <1>1 DEF Effect, Amends
<1> HIDE DEF ok, image, touched
<1> QED
  BY <1>1, <1>2, <1>3, <1>4, <1>5, PrepareIfPlans

LEMMA RecalculateChainPlans ==
  ASSUME TypeInv, LedgerInv, PlanInv, NEW s \in Sessions, RecalculateChain(s)
  PROVE  PlanInv'
<1> DEFINE a == cmd[s].id
           ok == Present(db, a) /\ a \in Approvals /\ RecalcOk(db, a)
           image == Recalculated(db, a)
           touched == {a} \cup Children(db, a)
<1>1. pc[s] = "body" /\ cmd[s].op = "recalculate" /\ cmd[s].op \notin Creates
  BY DEF RecalculateChain, At, Creates
<1>2. PrepareIf(s, ok, image, touched)
  BY Zenon DEF RecalculateChain
<1>3. ok => Covered(s, image, touched)
  BY RecalculateChainCovered
<1>4. ok => lock[a] = s /\ a \notin Cancellations
  BY <1>1, ApprovalHeld
<1>5. ok => Effect(db, image, cmd[s], Held(s))
  BY <1>1 DEF Effect, Recalculates
<1> HIDE DEF ok, image, touched
<1> QED
  BY <1>1, <1>2, <1>3, <1>4, <1>5, PrepareIfPlans

(* A commit of another session leaves the plan of u what it was: the rows  *)
(* it depends on are locked by u.                                          *)
LEMMA CommitMoves ==
  ASSUME TypeInv, LedgerInv, NEW s \in Sessions, Commit(s),
         NEW u \in Sessions \ {s}, pc[u] = "update"
  PROVE  Moves(db, OwnView(u), db', OwnView(u)')
<1> DEFINE d == db
           e == OwnView(u)
           d2 == db'
           e2 == OwnView(u)'
<1>1. /\ Stays(u) /\ SessionInv(u) /\ SessionInv(s) /\ pc[s] = "update"
      /\ \A i \in Ids : write[s][i] # Keep => lock[i] = s
      /\ \A i \in Ids : write[s][i] = Keep => db'[i] = db[i]
  BY CommitStep DEF LedgerInv, Commit
<1>2. ASSUME NEW i \in Ids, write[u][i] # Keep PROVE db'[i] = db[i]
  <2> SUFFICES ASSUME write[s][i] # Keep PROVE FALSE
    BY <1>1
  <2>1. lock[i] = s
    BY <1>1
  <2>2. ~Own(u, i)
    BY <1>1, <2>1 DEF SessionInv, CommandInv
  <2>3. Present(db, i)
    BY <1>1, <1>2, <2>2 DEF SessionInv, WriteInv
  <2>4. i \notin Approvals
    BY <1>1, <1>2, <2>1 DEF SessionInv, WriteInv
  <2>5. i \in Cancellations
    BY <2>4 DEF Ids
  <2>6. /\ lock[IF db[i].parent = None THEN i ELSE db[i].parent] = u
        /\ lock[IF db[i].parent = None THEN i ELSE db[i].parent] = s
    BY <1>1, <1>2, <2>3, <2>5 DEF SessionInv, WriteInv
  <2> QED
    BY <2>6
<1>3. /\ \A i \in Ids : e[i] = IF write[u][i] = Keep THEN d[i] ELSE write[u][i]
      /\ \A i \in Ids : e2[i] = IF write[u][i] = Keep THEN d2[i] ELSE write[u][i]
      /\ Rows(e2)
  BY <1>1 DEF OwnView, Stays, Rows
<1> HIDE DEF e, e2
<1>4. Moves(d, e, d2, e2)
  BY <1>2, <1>3 DEF Moves
<1> QED
  BY <1>4 DEF e, e2

LEMMA CommitPlans ==
  ASSUME TypeInv, TypeInv', LedgerInv, PlanInv, NEW s \in Sessions, Commit(s)
  PROVE  PlanInv'
<1>1. MatchInv(s)' /\ EffectInv(s)'
  <2>1. pc'[s] = "idle"
    BY CommitStep
  <2> QED
    BY <2>1 DEF MatchInv, EffectInv
<1>2. ASSUME NEW u \in Sessions \ {s} PROVE MatchInv(u)' /\ EffectInv(u)'
  <2>1. /\ Stays(u) /\ MatchInv(u) /\ EffectInv(u)
        /\ \A i \in Ids : lock'[i] = IF lock[i] = s THEN Free ELSE lock[i]
        /\ \A i \in Ids : lock[i] = u => db'[i] = db[i]
    <3>1. /\ \A i \in Ids : write[s][i] # Keep => lock[i] = s
          /\ \A i \in Ids : write[s][i] = Keep => db'[i] = db[i]
      BY CommitStep
    <3> QED
      BY <3>1, CommitStep DEF PlanInv
  <2>2. MatchInv(u)'
    BY <2>1 DEF MatchInv, Stays
  <2>3. EffectInv(u)'
    <3> SUFFICES ASSUME pc[u] = "update" PROVE EffectInv(u)'
      BY <2>1 DEF EffectInv, Stays
    <3> DEFINE k == cmd[u]
               held == Held(u)
    <3>1. /\ lock[k.id] = u
          /\ k.op = "link" => k.to \in held
          /\ k.op \notin Creates /\ k.id \in Cancellations => db[k.id].parent \in held \cup {None}
          /\ Effect(db, OwnView(u), k, held)
      BY <2>1 DEF EffectInv
    <3>2. k \in Commands /\ k.id \in Ids /\ db \in Database /\ db' \in Database
      <4>1. db' \in Database
        BY DEF TypeInv, TypeOK, Database
      <4> QED
        BY <4>1, Types
    <3>3. /\ db'[k.id] = db[k.id] /\ lock'[k.id] = u
          /\ k.id \in Approvals => k.id \in held
      BY <2>1, <3>1, <3>2 DEF Held
    <3>4. /\ held \in SUBSET Approvals /\ held = Held(u)'
          /\ \A a \in held : Alike(db, db', a)
      <4>1. \A a \in held : Alike(db, db', a)
        BY CommitElsewhere DEF Held
      <4>2. held = Held(u)'
        BY <2>1, ApprovalIsNone, SessionAssumption DEF Held
      <4> QED
        BY <4>1, <4>2 DEF Held
    <3>5. Moves(db, OwnView(u), db', OwnView(u)')
      BY CommitMoves
    <3> HIDE DEF k, held
    <3>6. Effect(db', OwnView(u)', k, held)
      BY <3>1, <3>2, <3>3, <3>4, <3>5, EffectMoves
    <3>7. k = cmd'[u]
      BY <2>1 DEF Stays, k
    <3> QED
      BY <3>1, <3>3, <3>4, <3>6, <3>7 DEF EffectInv
  <2> QED
    BY <2>2, <2>3
<1> QED
  BY <1>1, <1>2 DEF PlanInv

LEMMA InitPlans == Init => PlanInv
BY DEF Init, PlanInv, MatchInv, EffectInv

LEMMA NextPlans == TypeInv /\ TypeInv' /\ LedgerInv /\ PlanInv /\ [Next]_vars => PlanInv'
<1> SUFFICES ASSUME TypeInv, TypeInv', LedgerInv, PlanInv, [Next]_vars PROVE PlanInv'
  OBVIOUS
<1>1. CASE UNCHANGED vars
  <2>1. db' = db /\ lock' = lock /\ \A u \in Sessions : Stays(u)
    BY <1>1 DEF vars, Stays
  <2> QED
    BY <2>1, PlanKept DEF PlanInv
<1>2. ASSUME NEW s \in Sessions, NEW k \in Commands, Begin(s, k) PROVE PlanInv'
  BY <1>2, BeginPlans
<1>3. ASSUME NEW s \in Sessions, Step(s) PROVE PlanInv'
  <2>1. \/ Observe(s) \/ LockParent(s) \/ ParentsLocked(s) \/ LockChild(s)
        \/ InsertApproval(s) \/ InsertCancellation(s) \/ MatchApproval(s)
        \/ LockUpdated(s) \/ Commit(s)
        => PlanInv'
    BY ObservePlans, LockingPlans, InsertApprovalPlans, InsertCancellationPlans, MatchPlans,
       LockUpdatedPlans, CommitPlans
  <2>2. \/ LinkInserted(s) \/ LinkCancellation(s) \/ UnlinkCancellation(s)
        \/ RemoveCancellation(s) \/ RemoveApproval(s)
        \/ FlagApproval(s) \/ FlagCancellation(s)
        \/ AmendApproval(s) \/ RecalculateChain(s)
        => PlanInv'
    BY LinkInsertedPlans, LinkCancellationPlans, UnlinkCancellationPlans,
       RemoveCancellationPlans, RemoveApprovalPlans, FlagApprovalPlans,
       FlagCancellationPlans, AmendApprovalPlans, RecalculateChainPlans
  <2> QED
    BY <1>3, <2>1, <2>2 DEF Step
<1>4. ASSUME NEW s \in Sessions, Abort(s) PROVE PlanInv'
  BY <1>4, RollbackPlans DEF Abort
<1> QED
  BY <1>1, <1>2, <1>3, <1>4 DEF Next

(* A commit is one step of the ledger, every other statement none. *)
LEMMA CommitIsLedgerStep ==
  ASSUME TypeInv, TypeInv', LedgerInv, PlanInv, NEW s \in Sessions, Commit(s)
  PROVE  Ledger!Next
<1>1. db' = OwnView(s)
  <2>1. \A i \in Ids : db'[i] = OwnView(s)[i]
    BY CommitStep
  <2>2. db' = [i \in Ids |-> db'[i]]
    BY DEF TypeInv, TypeOK
  <2> QED
    BY <2>1, <2>2 DEF OwnView
<1>2. Effect(db, db', cmd[s], Held(s))
  BY <1>1 DEF Commit, PlanInv, EffectInv
<1>3. cmd[s] \in Commands /\ Held(s) \in SUBSET Approvals
  BY Types DEF Held
<1> QED
  BY <1>2, <1>3, EffectIsLedgerStep

LEMMA NextIsLedgerStep ==
  TypeInv /\ TypeInv' /\ LedgerInv /\ PlanInv /\ [Next]_vars => [Ledger!Next]_db
<1> SUFFICES ASSUME TypeInv, TypeInv', LedgerInv, PlanInv, [Next]_vars, db' # db
             PROVE  Ledger!Next
  OBVIOUS
<1>1. PICK s \in Sessions : Commit(s)
  BY DEF vars, Next, Begin, Abort, Rollback, Step, Observe, LockParent, LockNext,
         ParentsLocked, LockChild, InsertApproval, InsertCancellation, MatchApproval,
         LinkInserted, LinkCancellation, UnlinkCancellation, RemoveCancellation,
         RemoveApproval, FlagApproval, FlagCancellation, AmendApproval, RecalculateChain,
         LockUpdated, PrepareIf, Prepare
<1> QED
  BY <1>1, CommitIsLedgerStep

LEMMA InitIsLedgerInit == Init => Ledger!Init
BY DEF Init, Ledger!Init, Ids, Ledger!Ids

(* For every set of rows, sessions and commands: the locked, interleaved   *)
(* statements of the money commands implement the atomic ledger.  Every    *)
(* commit is one accepted command, applied to the rows of that instant     *)
(* (transaction-money.service.ts: lockInOrder, lockCancellationForMutation,*)
(* and the plan made under these locks).                                   *)
THEOREM MoneyChainImplementsLedger == Spec => ImplementsLedger
<1> QED
  BY InitTypeInv, NextTypeInv, InitLedger, NextLedger, InitPlans, NextPlans,
     InitIsLedgerInit, NextIsLedgerStep, PTL DEF Spec, ImplementsLedger, Ledger!Spec
=============================================================================
