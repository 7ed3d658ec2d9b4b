---------------------------- MODULE OutboxProofs -----------------------------
(***************************************************************************)
(* Proofs about Outbox, for every set of events and workers, every batch   *)
(* size and every number of attempts and retained jobs.                    *)
(***************************************************************************)
EXTENDS Outbox, WellFoundedInduction, FiniteSetTheorems, TLAPS

(* A non-empty set of numbers has a least element. *)
LEMMA LeastNatural ==
  ASSUME NEW T \in SUBSET Nat, T # {}
  PROVE  \E x \in T : \A y \in T : x <= y
<1>1. PICK x \in T : \A y \in T : ~ (<<y, x>> \in OpToRel(<, Nat))
  BY WFMin, NatLessThanWellFounded, Zenon
<1>2. \A y \in T : ~ (y < x)
  BY <1>1, Zenon DEF OpToRel
<1> QED
  BY <1>2

(* The event a worker handles is one it has claimed. *)
LEMMA CurrentInBatch ==
  ASSUME NEW w \in Workers, batch[w] \in SUBSET Copy, batch[w] # {}
  PROVE  Current(w) \in batch[w] /\ Current(w) \in Copy /\ Current(w).id \in Events
<1> DEFINE ids == {c.id : c \in batch[w]}
<1>1. ids \in SUBSET Nat /\ ids # {}
  BY OutboxAssumption DEF Copy
<1>a. PICK x \in ids : \A y \in ids : x <= y
  <2> HIDE DEF ids
  <2> QED
    BY <1>1, LeastNatural
<1>2. \E c \in batch[w] : \A d \in batch[w] : c.id <= d.id
  BY <1>a
<1>3. Current(w) \in batch[w]
  BY <1>2 DEF Current
<1> QED
  BY <1>3 DEF Copy

-----------------------------------------------------------------------------
(* A worker has a batch exactly while it is not idle. *)
BusyWithBatch == \A w \in Workers : pc[w] = "idle" <=> batch[w] = {}

(* What a worker is about to record as published has a job. *)
MarkedWasHanded ==
  \A w \in Workers : pc[w] = "mark" => created[Current(w).id] > 0

(* A leased row is unresolved. *)
LeasedUnresolved ==
  \A e \in Events : row[e].owner # Nobody
                      => ~row[e].published /\ ~row[e].quarantined

(* An unresolved event has attempts left. *)
BudgetLeft == \A e \in Events :
  ~row[e].published /\ ~row[e].quarantined => row[e].attempts < MaxAttempts

NotBoth == \A e \in Events : ~(row[e].published /\ row[e].quarantined)

(* Every job that exists was created. *)
JobsCounted ==
  /\ \A e \in waiting : created[e] > 0
  /\ \A o \in Outcomes : \A i \in 1 .. Len(finished[o]) :
       created[finished[o][i]] > 0

(* The inductive invariant. *)
Inv == /\ TypeOK /\ BusyWithBatch /\ MarkedWasHanded /\ LeasedUnresolved
       /\ NotBoth /\ PublishedWasHanded /\ JobsCounted /\ BudgetLeft

(* It holds of a worker that has just started and of an empty table.       *)
THEOREM InitInv == Init => Inv
<1> SUFFICES ASSUME Init PROVE Inv
  OBVIOUS
<1>1. TypeOK
  BY OutboxAssumption DEF Init, TypeOK, NewRow, Row, Outcomes
<1>2. BusyWithBatch /\ MarkedWasHanded
  BY DEF Init, BusyWithBatch, MarkedWasHanded
<1>3. LeasedUnresolved /\ NotBoth /\ PublishedWasHanded /\ JobsCounted
        /\ BudgetLeft
  BY OutboxAssumption DEF Init, NewRow, BudgetLeft, LeasedUnresolved, NotBoth, BudgetLeft, PublishedWasHanded, JobsCounted
<1> QED
  BY <1>1, <1>2, <1>3 DEF Inv

-----------------------------------------------------------------------------
(* NextEvent and Abandon keep the workers' part of the invariant. *)
LEMMA NextEventType ==
  ASSUME TypeOK, BusyWithBatch, NEW w \in Workers, batch[w] # {}, NextEvent(w)
  PROVE  /\ batch' \in [Workers -> SUBSET Copy]
         /\ pc' \in [Workers -> {"idle", "add", "mark", "contract", "transient"}]
         /\ BusyWithBatch'
         /\ \A v \in Workers : pc'[v] = "mark"
                => v # w /\ pc[v] = "mark" /\ batch'[v] = batch[v]
<1> DEFINE rest == batch[w] \ {Current(w)}
<1>1. rest \in SUBSET Copy
  BY DEF TypeOK
<1>2. /\ batch' = [batch EXCEPT ![w] = rest]
      /\ pc' = [pc EXCEPT ![w] = IF rest = {} THEN "idle" ELSE "add"]
  BY DEF NextEvent
<1> HIDE DEF rest
<1> QED
  BY <1>1, <1>2 DEF TypeOK, BusyWithBatch

LEMMA AbandonType ==
  ASSUME TypeOK, BusyWithBatch, NEW w \in Workers, Abandon(w)
  PROVE  /\ batch' \in [Workers -> SUBSET Copy]
         /\ pc' \in [Workers -> {"idle", "add", "mark", "contract", "transient"}]
         /\ BusyWithBatch'
         /\ \A v \in Workers : pc'[v] = "mark"
                => v # w /\ pc[v] = "mark" /\ batch'[v] = batch[v]
BY DEF TypeOK, BusyWithBatch, Abandon

(* The event a worker handles does not change while its batch does not. *)
LEMMA SameCurrent ==
  ASSUME NEW w \in Workers, batch'[w] = batch[w]
  PROVE  Current(w)' = Current(w)
BY DEF Current

(* A recorded result keeps the rows' part of the invariant. *)
RowInv == /\ row \in [Events -> Row] /\ LeasedUnresolved /\ NotBoth
          /\ PublishedWasHanded /\ BudgetLeft

LEMMA RecordPublishedInv ==
  ASSUME Inv, NEW w \in Workers, pc[w] = "mark",
         RecordPublished(w) \/ UNCHANGED row, UNCHANGED created
  PROVE  RowInv'
<1> DEFINE e == Current(w).id
<1>1. batch[w] # {} /\ batch[w] \in SUBSET Copy
  BY DEF Inv, TypeOK, BusyWithBatch
<1>2. e \in Events /\ Current(w).attempts + 1 \in 0 .. MaxAttempts
  BY <1>1, CurrentInBatch, OutboxAssumption DEF Copy
<1>3. created[e] > 0
  BY DEF Inv, MarkedWasHanded
<1> HIDE DEF e
<1>4. CASE UNCHANGED row
  BY <1>4 DEF RowInv, Inv, TypeOK, LeasedUnresolved, NotBoth, BudgetLeft, PublishedWasHanded
<1>5. CASE row[e].owner = w /\ RecordPublished(w)
  <2>1. row' = [row EXCEPT ![e].published = TRUE,
                           ![e].attempts = Current(w).attempts + 1,
                           ![e].owner = Nobody, ![e].stale = FALSE]
    BY <1>5 DEF RecordPublished, e
  <2> DEFINE r == [row[e] EXCEPT !.published = TRUE,
                                 !.attempts = Current(w).attempts + 1,
                                 !.owner = Nobody, !.stale = FALSE]
  <2>2. row' = [row EXCEPT ![e] = r]
    BY <2>1, <1>2 DEF Inv, TypeOK
  <2>3. row[e] \in Row /\ ~row[e].quarantined
    BY <1>2, <1>5, OutboxAssumption DEF Inv, TypeOK, LeasedUnresolved
  <2>4. r \in Row /\ r.owner = Nobody /\ ~r.quarantined /\ r.published
    BY <1>2, <2>3 DEF Row
  <2> HIDE DEF r
  <2> QED
    BY <1>2, <1>3, <2>2, <2>4
       DEF RowInv, Inv, TypeOK, LeasedUnresolved, NotBoth, BudgetLeft, PublishedWasHanded
<1> QED
  BY <1>4, <1>5 DEF RecordPublished, e

LEMMA RecordFailureInv ==
  ASSUME Inv, NEW w \in Workers, pc[w] \in {"contract", "transient"},
         RecordFailure(w) \/ UNCHANGED <<row, alerts>>, UNCHANGED created
  PROVE  RowInv' /\ alerts' \subseteq Events
<1> DEFINE e == Current(w).id
<1> DEFINE q == Quarantines(w)
<1>1. batch[w] # {} /\ batch[w] \in SUBSET Copy
  BY DEF Inv, TypeOK, BusyWithBatch
<1>2. e \in Events /\ Current(w).attempts + 1 \in 0 .. MaxAttempts
  BY <1>1, CurrentInBatch, OutboxAssumption DEF Copy
<1>3. q \in BOOLEAN
  BY DEF Quarantines
<1> HIDE DEF e
<1>4. CASE UNCHANGED <<row, alerts>>
  BY <1>4 DEF RowInv, Inv, TypeOK, LeasedUnresolved, NotBoth, BudgetLeft, PublishedWasHanded
<1>5. CASE row[e].owner = w /\ RecordFailure(w)
  <2>1. /\ row' = [row EXCEPT ![e].attempts = Current(w).attempts + 1,
                              ![e].ready = q, ![e].quarantined = q,
                              ![e].owner = Nobody, ![e].stale = FALSE]
        /\ alerts' = IF q THEN alerts \cup {e} ELSE alerts
    BY <1>5 DEF RecordFailure, e
  <2> HIDE DEF q
  <2> DEFINE r == [row[e] EXCEPT !.attempts = Current(w).attempts + 1,
                                 !.ready = q, !.quarantined = q,
                                 !.owner = Nobody, !.stale = FALSE]
  <2>2. row' = [row EXCEPT ![e] = r]
    BY <2>1, <1>2 DEF Inv, TypeOK
  <2>3. row[e] \in Row /\ ~row[e].published
    BY <1>2, <1>5, OutboxAssumption DEF Inv, TypeOK, LeasedUnresolved
  <2>21. q \/ Current(w).attempts + 1 < MaxAttempts
    BY <1>2, <1>1, CurrentInBatch, OutboxAssumption DEF q, Quarantines, Copy
  <2>4. /\ r \in Row /\ r.owner = Nobody /\ ~r.published
        /\ ~r.quarantined => r.attempts < MaxAttempts
    BY <1>2, <1>3, <2>3, <2>21 DEF Row
  <2>5. alerts' \subseteq Events
    BY <1>2, <2>1 DEF Inv, TypeOK
  <2> HIDE DEF r
  <2> QED
    BY <1>2, <2>2, <2>4, <2>5
       DEF RowInv, Inv, TypeOK, LeasedUnresolved, NotBoth, BudgetLeft, PublishedWasHanded
<1> QED
  BY <1>4, <1>5 DEF RecordFailure, e

LEMMA RetainedCounted ==
  ASSUME TypeOK, JobsCounted, NEW e \in Retained
  PROVE  created[e] > 0
<1>1. CASE e \in waiting
  BY <1>1 DEF JobsCounted
<1>2. CASE e \notin waiting
  <2>1. PICK o \in Outcomes : e \in {finished[o][i] : i \in DOMAIN finished[o]}
    BY <1>2 DEF Retained
  <2>2. DOMAIN finished[o] = 1 .. Len(finished[o])
    BY DEF TypeOK
  <2> QED
    BY <2>1, <2>2 DEF JobsCounted
<1> QED
  BY <1>1, <1>2

LEMMA QueueAddCounts ==
  ASSUME TypeOK, JobsCounted, NEW e \in Events,
         QueueAdd(e) \/ UNCHANGED <<waiting, created>>, UNCHANGED finished
  PROVE  /\ waiting' \in SUBSET Events /\ created' \in [Events -> Nat]
         /\ \A f \in Events : created[f] > 0 => created'[f] > 0
         /\ JobsCounted'
         /\ QueueAdd(e) => created'[e] > 0
<1>1. CASE QueueAdd(e) /\ e \notin Retained
  <2>1. waiting' = waiting \cup {e} /\ created' = [created EXCEPT ![e] = @ + 1]
    BY <1>1 DEF QueueAdd
  <2>2. created' \in [Events -> Nat] /\ created'[e] > 0
          /\ \A f \in Events : created[f] > 0 => created'[f] > 0
    BY <2>1 DEF TypeOK
  <2>3. \A o \in Outcomes : \A i \in 1 .. Len(finished[o]) :
          finished[o][i] \in Events
    BY DEF TypeOK
  <2>4. JobsCounted'
    BY <2>1, <2>2, <2>3 DEF JobsCounted, TypeOK
  <2> QED
    BY <2>1, <2>2, <2>4 DEF TypeOK
<1>2. CASE UNCHANGED <<waiting, created>>
  BY <1>2, RetainedCounted DEF TypeOK, JobsCounted, QueueAdd
<1>3. CASE e \in Retained /\ QueueAdd(e)
  BY <1>3, <1>2 DEF QueueAdd
<1> QED
  BY <1>1, <1>2, <1>3

LEMMA JobEndsCounted ==
  ASSUME TypeOK, JobsCounted, NEW e \in Events, NEW o \in Outcomes, JobEnds(e, o)
  PROVE  /\ waiting' \in SUBSET Events /\ finished' \in [Outcomes -> Seq(Events)]
         /\ JobsCounted'
<1> DEFINE done == Append(finished[o], e)
<1> DEFINE kept == IF Len(done) > Retain THEN Tail(done) ELSE done
<1>1. /\ e \in waiting /\ waiting' = waiting \ {e}
      /\ finished' = [finished EXCEPT ![o] = kept]
      /\ UNCHANGED created
  BY DEF JobEnds
<1>2. finished[o] \in Seq(Events) /\ done \in Seq(Events)
        /\ Len(done) = Len(finished[o]) + 1
        /\ \A i \in 1 .. Len(done) :
             done[i] = IF i <= Len(finished[o]) THEN finished[o][i] ELSE e
  BY DEF TypeOK
<1>3. \A i \in 1 .. Len(done) : created[done[i]] > 0
  BY <1>1, <1>2 DEF JobsCounted
<1> HIDE DEF done
<1>4. kept \in Seq(Events) /\ \A i \in 1 .. Len(kept) : created[kept[i]] > 0
  <2>1. CASE Len(done) > Retain
    <3>1. /\ Tail(done) \in Seq(Events) /\ Len(Tail(done)) = Len(done) - 1
          /\ \A i \in 1 .. Len(Tail(done)) : Tail(done)[i] = done[i + 1]
      BY <1>2, <2>1
    <3>2. \A i \in 1 .. Len(Tail(done)) : i + 1 \in 1 .. Len(done)
      BY <1>2, <3>1
    <3> QED
      BY <1>3, <2>1, <3>1, <3>2
  <2>2. CASE ~(Len(done) > Retain)
    BY <1>2, <1>3, <2>2
  <2> QED
    BY <2>1, <2>2
<1> HIDE DEF kept
<1>5. JobsCounted'
  BY <1>1, <1>4 DEF JobsCounted, TypeOK
<1> QED
  BY <1>1, <1>4, <1>5 DEF TypeOK

-----------------------------------------------------------------------------
(* Every action keeps the invariant, one step of the proof per action. *)
LEMMA NextInv ==
  ASSUME Inv, [Next]_vars
  PROVE  Inv'
<1>t. /\ TypeOK /\ BusyWithBatch /\ MarkedWasHanded /\ LeasedUnresolved
      /\ NotBoth /\ PublishedWasHanded /\ JobsCounted /\ BudgetLeft
  BY DEF Inv
<1>c. \A w \in Workers : pc[w] # "idle" =>
        /\ batch[w] # {} /\ Current(w) \in Copy /\ Current(w).id \in Events
  BY <1>t, CurrentInBatch DEF TypeOK, BusyWithBatch
<1>m. ASSUME \A w \in Workers : pc'[w] = "mark" =>
               pc[w] = "mark" /\ batch'[w] = batch[w],
             UNCHANGED created
      PROVE  MarkedWasHanded'
  BY <1>t, <1>m, SameCurrent DEF MarkedWasHanded
<1>1. ASSUME NEW w \in Workers, Claim(w)
      PROVE  Inv'
  <2>1. Batch \in SUBSET Events /\ \A e \in Batch : Claimable(e)
    BY DEF Batch
  <2>2. /\ row' \in [Events -> Row] /\ LeasedUnresolved' /\ NotBoth'
        /\ PublishedWasHanded' /\ BudgetLeft'
    <3> DEFINE held(e) == [row[e] EXCEPT !.owner = w, !.stale = FALSE]
    <3>1. \A e \in Events : /\ held(e) \in Row
                            /\ held(e).published = row[e].published
                            /\ held(e).quarantined = row[e].quarantined
                            /\ held(e).attempts = row[e].attempts
      BY <1>t DEF TypeOK, Row
    <3>2. /\ row' = [e \in Events |-> IF e \in Batch THEN held(e) ELSE row[e]]
          /\ UNCHANGED created
      BY <1>1 DEF Claim, queueVars
    <3>3. \A e \in Batch : ~row[e].published /\ ~row[e].quarantined
      BY <2>1 DEF Claimable, Due
    <3> HIDE DEF held
    <3>4. row' \in [Events -> Row]
      BY <1>t, <3>1, <3>2 DEF TypeOK
    <3>5. \A e \in Events : /\ row'[e].published = row[e].published
                            /\ row'[e].quarantined = row[e].quarantined
                            /\ row'[e].attempts = row[e].attempts
                            /\ e \notin Batch => row'[e] = row[e]
      BY <3>1, <3>2
    <3> QED
      BY <1>t, <3>2, <3>3, <3>4, <3>5
         DEF LeasedUnresolved, NotBoth, BudgetLeft, PublishedWasHanded
  <2>3. {[id |-> e, attempts |-> row[e].attempts] : e \in Batch} \in SUBSET Copy
          /\ {[id |-> e, attempts |-> row[e].attempts] : e \in Batch} # {}
    <3>1. \A e \in Batch : row[e].attempts \in 0 .. MaxAttempts - 1
      BY <1>t, <2>1, OutboxAssumption
         DEF TypeOK, Row, Claimable, Due, BudgetLeft
    <3>2. Batch # {}
      BY <1>1 DEF Claim
    <3>3. \A e \in Batch : [id |-> e, attempts |-> row[e].attempts] \in Copy
      BY <2>1, <3>1 DEF Copy
    <3>4. PICK e \in Batch : TRUE
      BY <3>2
    <3> DEFINE copies == {[id |-> f, attempts |-> row[f].attempts] : f \in Batch}
    <3>5. [id |-> e, attempts |-> row[e].attempts] \in copies
      BY <3>4
    <3>6. copies \in SUBSET Copy
      BY <3>3
    <3> QED
      BY <3>5, <3>6
  <2>4. BusyWithBatch' /\ TypeOK'
    BY <1>t, <1>1, <2>2, <2>3 DEF Claim, TypeOK, BusyWithBatch, queueVars
  <2>5. MarkedWasHanded' /\ JobsCounted'
    BY <1>t, <1>1, <1>m DEF Claim, TypeOK, JobsCounted, queueVars
  <2> QED
    BY <2>2, <2>4, <2>5 DEF Inv
<1>2. ASSUME NEW w \in Workers, Add(w) \/ AddFails(w)
      PROVE  Inv'
  <2> DEFINE e == Current(w).id
  <2>1. e \in Events
    BY <1>2, <1>c DEF Add, AddFails
  <2>2. /\ QueueAdd(e) \/ UNCHANGED <<waiting, created>>
        /\ \/ pc' = [pc EXCEPT ![w] = "mark"] /\ QueueAdd(e)
           \/ pc' = [pc EXCEPT ![w] = "transient"]
        /\ pc[w] = "add"
        /\ UNCHANGED <<row, batch, finished, alerts, faults>>
    BY <1>2 DEF Add, AddFails
  <2>3. /\ waiting' \in SUBSET Events /\ created' \in [Events -> Nat]
        /\ \A f \in Events : created[f] > 0 => created'[f] > 0
        /\ JobsCounted'
        /\ QueueAdd(e) => created'[e] > 0
    BY <1>t, <2>1, <2>2, QueueAddCounts
  <2>4. TypeOK' /\ BusyWithBatch'
    BY <1>t, <2>2, <2>3 DEF TypeOK, BusyWithBatch
  <2>5. LeasedUnresolved' /\ NotBoth' /\ PublishedWasHanded' /\ BudgetLeft'
    BY <1>t, <2>2, <2>3 DEF LeasedUnresolved, NotBoth, BudgetLeft, PublishedWasHanded
  <2>6. \A v \in Workers : Current(v)' = Current(v)
    BY <2>2, SameCurrent
  <2>7. MarkedWasHanded'
    BY <1>t, <1>c, <2>2, <2>3, <2>6 DEF MarkedWasHanded, TypeOK
  <2> QED
    BY <2>3, <2>4, <2>5, <2>7 DEF Inv
<1>3. ASSUME NEW w \in Workers, RouteFails(w)
      PROVE  Inv'
  <2>1. TypeOK' /\ BusyWithBatch'
    BY <1>t, <1>3 DEF RouteFails, TypeOK, BusyWithBatch, queueVars
  <2>2. MarkedWasHanded'
    BY <1>t, <1>3, <1>m DEF RouteFails, TypeOK, queueVars
  <2>3. LeasedUnresolved' /\ NotBoth' /\ PublishedWasHanded' /\ BudgetLeft'
        /\ JobsCounted'
    BY <1>t, <1>3 DEF RouteFails, LeasedUnresolved, NotBoth, BudgetLeft,
                      PublishedWasHanded, JobsCounted, queueVars
  <2> QED
    BY <2>1, <2>2, <2>3 DEF Inv
<1>4. ASSUME NEW w \in Workers, MarkPublished(w)
      PROVE  Inv'
  <2>1. RowInv'
    BY <1>4, RecordPublishedInv DEF MarkPublished, queueVars
  <2>2. /\ NextEvent(w) /\ batch[w] # {}
        /\ UNCHANGED <<waiting, finished, created, alerts, faults>>
    BY <1>4, <1>c DEF MarkPublished, queueVars
  <2>3. TypeOK' /\ BusyWithBatch'
    BY <1>t, <2>1, <2>2, NextEventType DEF TypeOK, RowInv
  <2>4. MarkedWasHanded'
    BY <1>t, <1>m, <2>2, NextEventType
  <2>5. JobsCounted'
    BY <1>t, <2>2 DEF JobsCounted
  <2> QED
    BY <2>1, <2>3, <2>4, <2>5 DEF Inv, RowInv
<1>5. ASSUME NEW w \in Workers, MarkPublishedFails(w)
      PROVE  Inv'
  <2>1. RowInv'
    BY <1>5, RecordPublishedInv DEF MarkPublishedFails, queueVars
  <2>2. /\ pc' = [pc EXCEPT ![w] = "transient"] /\ pc[w] = "mark"
        /\ faults' \in 0 .. MaxFaults
        /\ UNCHANGED <<batch, waiting, finished, created, alerts>>
    BY <1>t, <1>5, OutboxAssumption DEF MarkPublishedFails, Fault, TypeOK, queueVars
  <2>3. TypeOK' /\ BusyWithBatch'
    BY <1>t, <2>1, <2>2 DEF TypeOK, BusyWithBatch, RowInv
  <2>4. MarkedWasHanded'
    BY <1>t, <1>m, <2>2 DEF TypeOK
  <2>5. JobsCounted'
    BY <1>t, <2>2 DEF JobsCounted
  <2> QED
    BY <2>1, <2>3, <2>4, <2>5 DEF Inv, RowInv
<1>6. ASSUME NEW w \in Workers, MarkFailed(w)
      PROVE  Inv'
  <2>1. RowInv' /\ alerts' \subseteq Events
    BY <1>6, RecordFailureInv DEF MarkFailed, queueVars
  <2>2. /\ NextEvent(w) /\ batch[w] # {}
        /\ UNCHANGED <<waiting, finished, created, faults>>
    BY <1>6, <1>c DEF MarkFailed, queueVars
  <2>3. TypeOK' /\ BusyWithBatch'
    BY <1>t, <2>1, <2>2, NextEventType DEF TypeOK, RowInv
  <2>4. MarkedWasHanded'
    BY <1>t, <1>m, <2>2, NextEventType
  <2>5. JobsCounted'
    BY <1>t, <2>2 DEF JobsCounted
  <2> QED
    BY <2>1, <2>3, <2>4, <2>5 DEF Inv, RowInv
<1>7. ASSUME NEW w \in Workers, MarkFailedFails(w)
      PROVE  Inv'
  <2>1. RowInv' /\ alerts' \subseteq Events
    BY <1>7, RecordFailureInv DEF MarkFailedFails, queueVars
  <2>2. /\ Abandon(w) /\ faults' \in 0 .. MaxFaults
        /\ UNCHANGED <<waiting, finished, created>>
    BY <1>t, <1>7, OutboxAssumption DEF MarkFailedFails, Fault, TypeOK, queueVars
  <2>3. TypeOK' /\ BusyWithBatch'
    BY <1>t, <2>1, <2>2, AbandonType DEF TypeOK, RowInv
  <2>4. MarkedWasHanded'
    BY <1>t, <1>m, <2>2, AbandonType
  <2>5. JobsCounted'
    BY <1>t, <2>2 DEF JobsCounted
  <2> QED
    BY <2>1, <2>3, <2>4, <2>5 DEF Inv, RowInv
<1>8. ASSUME NEW w \in Workers, Crash(w)
      PROVE  Inv'
  <2>1. \A e \in Events : [row[e] EXCEPT !.owner = Gone] \in Row
    BY <1>t DEF TypeOK, Row
  <2>2. RowInv'
    BY <1>t, <1>8, <2>1, OutboxAssumption
       DEF Crash, RowInv, TypeOK, LeasedUnresolved, NotBoth, BudgetLeft,
           PublishedWasHanded, queueVars
  <2>3. /\ Abandon(w) /\ faults' \in 0 .. MaxFaults
        /\ UNCHANGED <<waiting, finished, created, alerts>>
    BY <1>t, <1>8, OutboxAssumption DEF Crash, Fault, TypeOK, queueVars
  <2>4. TypeOK' /\ BusyWithBatch'
    BY <1>t, <2>2, <2>3, AbandonType DEF TypeOK, RowInv
  <2>5. MarkedWasHanded'
    BY <1>t, <1>m, <2>3, AbandonType
  <2>6. JobsCounted'
    BY <1>t, <2>3 DEF JobsCounted
  <2> QED
    BY <2>2, <2>4, <2>5, <2>6 DEF Inv, RowInv
<1>9. ASSUME NEW e \in Events,
             Insert(e) \/ LeaseExpires(e) \/ BackoffEnds(e) \/ SlowBatch(e)
               \/ Reprocess(e)
      PROVE  Inv'
  <2>1. /\ row' \in [Events -> Row]
        /\ \A f \in Events : /\ row'[f].published = row[f].published
                             /\ row'[f].quarantined => row[f].quarantined
                             /\ \/ /\ row'[f].attempts = row[f].attempts
                                   /\ row'[f].quarantined = row[f].quarantined
                                \/ row'[f].attempts = 0
                             /\ row'[f].owner # Nobody => row[f].owner # Nobody
    <3>1. row[e] \in Row
      BY <1>t DEF TypeOK
    <3>2. /\ [row[e] EXCEPT !.exists = TRUE] \in Row
          /\ [row[e] EXCEPT !.stale = TRUE] \in Row
          /\ [row[e] EXCEPT !.ready = TRUE] \in Row
      BY <3>1 DEF Row
    <3>3. CASE Insert(e)
      BY <1>t, <3>2, <3>3 DEF Insert, TypeOK, Row
    <3>4. CASE LeaseExpires(e) \/ SlowBatch(e)
      <4> DEFINE r == [row[e] EXCEPT !.stale = TRUE]
      <4>1. row' = [row EXCEPT ![e] = r]
        BY <3>4 DEF LeaseExpires, SlowBatch
      <4>2. /\ r \in Row /\ r.published = row[e].published
            /\ r.quarantined = row[e].quarantined /\ r.owner = row[e].owner
            /\ r.attempts = row[e].attempts
        BY <3>1 DEF Row
      <4> HIDE DEF r
      <4> QED
        BY <1>t, <4>1, <4>2 DEF TypeOK
    <3>5. CASE BackoffEnds(e)
      BY <1>t, <3>2, <3>5 DEF BackoffEnds, TypeOK, Row
    <3>6. CASE Reprocess(e)
      <4> DEFINE r == [row[e] EXCEPT !.attempts = 0, !.ready = TRUE,
                         !.owner = Nobody, !.stale = FALSE,
                         !.quarantined = FALSE, !.reprocessed = @ + 1]
      <4>1. row' = [row EXCEPT ![e] = r]
        BY <1>t, <3>6 DEF Reprocess, TypeOK
      <4>2. row[e].reprocessed + 1 \in 0 .. MaxReprocess
        BY <3>1, <3>6, OutboxAssumption DEF Reprocess, Row
      <4>3. r \in Row /\ r.published = row[e].published /\ ~r.quarantined
              /\ r.owner = Nobody /\ r.attempts = 0
        <5>1. 0 \in 0 .. MaxAttempts
          BY OutboxAssumption
        <5>2. /\ row[e].exists \in BOOLEAN /\ row[e].published \in BOOLEAN
              /\ row[e] = [f \in DOMAIN row[e] |-> row[e][f]]
              /\ DOMAIN row[e] = {"exists", "published", "quarantined", "ready",
                                  "attempts", "owner", "stale", "reprocessed"}
          BY <3>1 DEF Row
        <5>3. /\ r.exists = row[e].exists /\ r.published = row[e].published
              /\ r.quarantined = FALSE /\ r.ready = TRUE /\ r.attempts = 0
              /\ r.owner = Nobody /\ r.stale = FALSE
              /\ r.reprocessed = row[e].reprocessed + 1
          BY <5>2
        <5>4. /\ r = [f \in DOMAIN r |-> r[f]]
              /\ DOMAIN r = DOMAIN row[e]
          OBVIOUS
        <5> HIDE DEF r
        <5>5. r \in Row
          BY <4>2, <5>1, <5>2, <5>3, <5>4 DEF Row
        <5> QED
          BY <5>3, <5>5
      <4> HIDE DEF r
      <4> QED
        BY <1>t, <4>1, <4>3 DEF TypeOK
    <3> QED
      BY <1>9, <3>3, <3>4, <3>5, <3>6
  <2>2. /\ UNCHANGED <<batch, pc, waiting, finished, created, alerts>>
        /\ faults' \in 0 .. MaxFaults
    BY <1>t, <1>9, OutboxAssumption
       DEF Insert, LeaseExpires, BackoffEnds, SlowBatch, Reprocess, Fault,
           TypeOK, queueVars
  <2>3. TypeOK' /\ BusyWithBatch' /\ JobsCounted'
    BY <1>t, <2>1, <2>2 DEF TypeOK, BusyWithBatch, JobsCounted
  <2>4. MarkedWasHanded'
    BY <1>t, <1>m, <2>2
  <2>5. LeasedUnresolved' /\ NotBoth'
    BY <1>t, <2>1 DEF LeasedUnresolved, NotBoth
  <2>6. PublishedWasHanded'
    BY <1>t, <2>1, <2>2 DEF PublishedWasHanded
  <2>7. BudgetLeft'
    <3>1. 0 < MaxAttempts
      BY OutboxAssumption
    <3> QED
      BY <1>t, <2>1, <3>1 DEF BudgetLeft
  <2> QED
    BY <2>3, <2>4, <2>5, <2>6, <2>7 DEF Inv
<1>10. ASSUME NEW e \in Events, NEW o \in Outcomes, JobEnds(e, o)
       PROVE  Inv'
  <2>1. UNCHANGED <<row, batch, pc, created, alerts, faults>>
    BY <1>10 DEF JobEnds
  <2>2. TypeOK' /\ BusyWithBatch' /\ JobsCounted'
    BY <1>t, <1>10, <2>1, JobEndsCounted DEF TypeOK, BusyWithBatch
  <2>3. MarkedWasHanded'
    BY <1>t, <1>m, <2>1
  <2>4. LeasedUnresolved' /\ NotBoth' /\ PublishedWasHanded' /\ BudgetLeft'
    BY <1>t, <2>1 DEF LeasedUnresolved, NotBoth, BudgetLeft, PublishedWasHanded
  <2> QED
    BY <2>2, <2>3, <2>4 DEF Inv
<1>11. CASE UNCHANGED vars
  <2>1. UNCHANGED <<row, batch, pc, waiting, finished, created, alerts, faults>>
    BY <1>11 DEF vars
  <2>2. TypeOK' /\ BusyWithBatch' /\ JobsCounted'
    BY <1>t, <2>1 DEF TypeOK, BusyWithBatch, JobsCounted
  <2>3. MarkedWasHanded'
    BY <1>t, <1>m, <2>1
  <2>4. LeasedUnresolved' /\ NotBoth' /\ PublishedWasHanded' /\ BudgetLeft'
    BY <1>t, <2>1 DEF LeasedUnresolved, NotBoth, BudgetLeft, PublishedWasHanded
  <2> QED
    BY <2>2, <2>3, <2>4 DEF Inv
<1> QED
  BY <1>1, <1>2, <1>3, <1>4, <1>5, <1>6, <1>7, <1>8, <1>9, <1>10, <1>11
     DEF Next, Poll, Time

(* Types, among them the retry budget: no row counts more than MaxAttempts *)
(* failures, and no worker holds an event whose budget is spent (claimed   *)
(* copies and rows of dispatchPending and markFailed).                     *)
THEOREM TypeCorrect == Spec => []TypeOK
<1>1. Inv => TypeOK
  BY DEF Inv
<1> QED
  BY <1>1, InitInv, NextInv, PTL DEF Spec

(* An event counts as published only after its job was created, whichever  *)
(* worker recorded it and whatever answers were lost (dispatchPending).    *)
THEOREM PublishedWasHandedCorrect == Spec => []PublishedWasHanded
<1>1. Inv => PublishedWasHanded
  BY DEF Inv
<1> QED
  BY <1>1, InitInv, NextInv, PTL DEF Spec

(* A row is never both published and quarantined, and a resolved row is    *)
(* leased to nobody (markPublished and markFailed of a worker that has     *)
(* lost its lease change nothing).                                         *)
THEOREM OneVerdictCorrect == Spec => []OneVerdict
<1>1. Inv => OneVerdict
  BY DEF Inv, OneVerdict, NotBoth, LeasedUnresolved, TypeOK, Row
<1> QED
  BY <1>1, InitInv, NextInv, PTL DEF Spec

-----------------------------------------------------------------------------
(* Nothing changes a published event.  Its row must not come back into any  *)
(* guard: a published or leased row exists and is not in a backoff.         *)
AtRest ==
  \A e \in Events : row[e].published \/ row[e].owner # Nobody
                      => row[e].exists /\ row[e].ready

(* What a recorded result does to a row: nothing, or a resolution of a row  *)
(* that this worker leases.                                                 *)
Resolves(e, w) ==
  /\ row[e].owner = w
  /\ \A f \in Events \ {e} : row'[f] = row[f]
  /\ row'[e].owner = Nobody /\ row'[e].exists = row[e].exists
  /\ row'[e].published => row'[e].ready = row[e].ready

LEMMA RecordResolves ==
  ASSUME TypeOK, NEW w \in Workers, Current(w).id \in Events,
         LeasedUnresolved,
         \/ RecordPublished(w)
         \/ RecordFailure(w)
         \/ UNCHANGED row
  PROVE  UNCHANGED row \/ Resolves(Current(w).id, w)
<1> DEFINE e == Current(w).id
<1>1. CASE RecordPublished(w) /\ row[e].owner = w
  <2> DEFINE n == Current(w).attempts + 1
  <2>1. row' = [row EXCEPT ![e].published = TRUE, ![e].attempts = n,
                           ![e].owner = Nobody, ![e].stale = FALSE]
    BY <1>1 DEF RecordPublished
  <2> HIDE DEF e, n
  <2> QED
    BY <1>1, <2>1 DEF Resolves, TypeOK, Row, e
<1>2. CASE RecordFailure(w) /\ row[e].owner = w
  <2> DEFINE n == Current(w).attempts + 1
             q == Quarantines(w)
  <2>1. row' = [row EXCEPT ![e].attempts = n, ![e].ready = q,
                           ![e].quarantined = q,
                           ![e].owner = Nobody, ![e].stale = FALSE]
    BY <1>2 DEF RecordFailure
  <2>2. ~row[e].published
    BY <1>2, OutboxAssumption DEF LeasedUnresolved
  <2> HIDE DEF e, n, q
  <2> QED
    BY <1>2, <2>1, <2>2 DEF Resolves, TypeOK, Row, e
<1>3. CASE row[e].owner # w /\ (RecordPublished(w) \/ RecordFailure(w))
  BY <1>3 DEF RecordPublished, RecordFailure
<1> QED
  BY <1>1, <1>2, <1>3

(* The steps of an event's row, seen from a published row.                  *)
LEMMA RowSteps ==
  ASSUME Inv, AtRest, [Next]_vars
  PROVE  /\ AtRest'
         /\ \A e \in Events : row[e].published => row'[e] = row[e]
<1>t. TypeOK /\ LeasedUnresolved
  BY DEF Inv
<1>c. \A w \in Workers : pc[w] # "idle" => Current(w).id \in Events
  BY <1>t, CurrentInBatch DEF Inv, TypeOK, BusyWithBatch
<1>1. ASSUME UNCHANGED row
      PROVE  AtRest' /\ \A e \in Events : row[e].published => row'[e] = row[e]
  BY <1>1 DEF AtRest
<1>2. ASSUME NEW w \in Workers, Claim(w)
      PROVE  AtRest' /\ \A e \in Events : row[e].published => row'[e] = row[e]
  <2>1. \A e \in Batch : row[e].exists /\ row[e].ready /\ ~row[e].published
    BY DEF Batch, Claimable, Due
  <2>2. \A e \in Events :
          row'[e] = IF e \in Batch THEN [row[e] EXCEPT !.owner = w, !.stale = FALSE]
                    ELSE row[e]
    BY <1>2 DEF Claim
  <2> QED
    BY <1>t, <2>1, <2>2 DEF AtRest, TypeOK, Row
<1>3. ASSUME NEW w \in Workers,
             \/ MarkPublished(w) \/ MarkPublishedFails(w)
             \/ MarkFailed(w) \/ MarkFailedFails(w)
      PROVE  AtRest' /\ \A e \in Events : row[e].published => row'[e] = row[e]
  <2>1. pc[w] # "idle"
    BY <1>3 DEF MarkPublished, MarkPublishedFails, MarkFailed, MarkFailedFails
  <2>2. RecordPublished(w) \/ RecordFailure(w) \/ UNCHANGED row
    BY <1>3 DEF MarkPublished, MarkPublishedFails, MarkFailed, MarkFailedFails
  <2>3. UNCHANGED row \/ Resolves(Current(w).id, w)
    BY <1>c, <1>t, <2>1, <2>2, RecordResolves
  <2>4. Current(w).id \in Events
    BY <1>c, <2>1
  <2> DEFINE e == Current(w).id
  <2> HIDE DEF e
  <2>5. CASE Resolves(e, w)
    BY <1>t, <2>4, <2>5, OutboxAssumption
       DEF Resolves, AtRest, LeasedUnresolved, e
  <2> QED
    BY <1>1, <2>3, <2>5 DEF e
<1>4. ASSUME NEW w \in Workers, Crash(w)
      PROVE  AtRest' /\ \A e \in Events : row[e].published => row'[e] = row[e]
  <2>1. \A e \in Events : row'[e] = IF row[e].owner = w
                                    THEN [row[e] EXCEPT !.owner = Gone] ELSE row[e]
    BY <1>4 DEF Crash
  <2>2. \A e \in Events : row[e].owner = w => ~row[e].published
    BY <1>t, OutboxAssumption DEF LeasedUnresolved
  <2>3. \A e \in Events : /\ row'[e].published = row[e].published
                          /\ row'[e].exists = row[e].exists
                          /\ row'[e].ready = row[e].ready
                          /\ row'[e].owner # Nobody => row[e].owner # Nobody
    BY <1>t, <2>1, OutboxAssumption DEF TypeOK, Row
  <2> QED
    BY <2>1, <2>2, <2>3 DEF AtRest
<1>5. ASSUME NEW e \in Events,
             Insert(e) \/ LeaseExpires(e) \/ SlowBatch(e) \/ BackoffEnds(e)
      PROVE  AtRest' /\ \A f \in Events : row[f].published => row'[f] = row[f]
  <2>1. ~row[e].published
    <3>1. row[e].owner # Nobody => ~row[e].published
      BY <1>t DEF LeasedUnresolved
    <3>2. row[e].owner \in Workers => row[e].owner # Nobody
      BY OutboxAssumption
    <3> QED
      BY <1>5, <3>1, <3>2
         DEF Insert, LeaseExpires, SlowBatch, Handled, BackoffEnds, AtRest
  <2>2. \A f \in Events \ {e} : row'[f] = row[f]
    BY <1>t, <1>5 DEF Insert, LeaseExpires, SlowBatch, BackoffEnds, TypeOK
  <2>3. /\ row'[e].published = row[e].published /\ row'[e].owner = row[e].owner
        /\ row[e].exists => row'[e].exists
        /\ row[e].ready => row'[e].ready
    <3>1. \/ row' = [row EXCEPT ![e].exists = TRUE]
          \/ row' = [row EXCEPT ![e].stale = TRUE]
          \/ row' = [row EXCEPT ![e].ready = TRUE]
      BY <1>5 DEF Insert, LeaseExpires, SlowBatch, BackoffEnds
    <3>2. row[e] \in Row
      BY <1>t DEF TypeOK
    <3>3. \/ row'[e] = [row[e] EXCEPT !.exists = TRUE]
          \/ row'[e] = [row[e] EXCEPT !.stale = TRUE]
          \/ row'[e] = [row[e] EXCEPT !.ready = TRUE]
      BY <1>t, <3>1 DEF TypeOK
    <3>4. CASE row'[e] = [row[e] EXCEPT !.exists = TRUE]
      BY <3>2, <3>4 DEF Row
    <3>5. CASE row'[e] = [row[e] EXCEPT !.stale = TRUE]
      BY <3>2, <3>5 DEF Row
    <3>6. CASE row'[e] = [row[e] EXCEPT !.ready = TRUE]
      BY <3>2, <3>6 DEF Row
    <3> QED
      BY <3>3, <3>4, <3>5, <3>6
  <2> QED
    BY <2>1, <2>2, <2>3 DEF AtRest
<1>6. ASSUME NEW e \in Events, Reprocess(e)
      PROVE  AtRest' /\ \A f \in Events : row[f].published => row'[f] = row[f]
  <2>1. ~row[e].published
    BY <1>6 DEF Reprocess
  <2>2. \A f \in Events \ {e} : row'[f] = row[f]
    BY <1>t, <1>6 DEF Reprocess, TypeOK
  <2>3. ~row'[e].published /\ row'[e].owner = Nobody
    BY <1>t, <1>6 DEF Reprocess, TypeOK, Row
  <2> QED
    BY <2>1, <2>2, <2>3 DEF AtRest
<1>7. ASSUME NEW w \in Workers, Add(w) \/ RouteFails(w) \/ AddFails(w)
      PROVE  UNCHANGED row
  BY <1>7 DEF Add, RouteFails, AddFails
<1>8. ASSUME NEW e \in Events, NEW o \in Outcomes, JobEnds(e, o)
      PROVE  UNCHANGED row
  BY <1>8 DEF JobEnds
<1>9. CASE UNCHANGED vars
  BY <1>1, <1>9 DEF vars
<1> QED
  BY <1>1, <1>2, <1>3, <1>4, <1>5, <1>6, <1>7, <1>8, <1>9 DEF Next, Poll, Time

(* Nothing a slow worker, a crash, a lost answer or an operator does        *)
(* changes an event that was published.                                     *)
THEOREM PublishedIsFinalCorrect == Spec => PublishedIsFinal
<1>1. Init => Inv /\ AtRest
  BY InitInv DEF Init, NewRow, AtRest
<1>2. Inv /\ AtRest /\ [Next]_vars => (Inv /\ AtRest)'
  BY NextInv, RowSteps
<1>3. Inv /\ AtRest /\ [Next]_vars =>
        [\A e \in Events : row[e].published => row'[e] = row[e]]_vars
  BY RowSteps
<1> QED
  BY <1>1, <1>2, <1>3, PTL DEF Spec, PublishedIsFinal

-----------------------------------------------------------------------------
(* A worker that owns a row knows its retry count: only a claim makes an    *)
(* owner, and only an owner counts a failure, giving up the row with it.    *)
LEMMA OwnerSteps ==
  ASSUME Inv, OwnerIsCurrent, [Next]_vars
  PROVE  OwnerIsCurrent'
<1>t. TypeOK /\ LeasedUnresolved
  BY DEF Inv
<1>c. \A w \in Workers : pc[w] # "idle" => Current(w).id \in Events
  BY <1>t, CurrentInBatch DEF Inv, TypeOK, BusyWithBatch
<1>i. \A w \in Workers : \A c \in batch[w] : c.id \in Events
  BY <1>t DEF TypeOK, Copy
<1>1. ASSUME NEW w \in Workers, Claim(w)
      PROVE  OwnerIsCurrent'
  <2>1. /\ batch' = [batch EXCEPT
                 ![w] = {[id |-> e, attempts |-> row[e].attempts] : e \in Batch}]
        /\ \A e \in Events :
             row'[e] = IF e \in Batch THEN [row[e] EXCEPT !.owner = w, !.stale = FALSE]
                       ELSE row[e]
    BY <1>1 DEF Claim
  <2>2. \A e \in Events : /\ row'[e].attempts = row[e].attempts
                          /\ row'[e].owner \in {w, row[e].owner}
    BY <1>t, <2>1 DEF TypeOK, Row
  <2>3. ASSUME NEW v \in Workers, v # w, NEW c \in batch'[v],
               row'[c.id].owner = v
        PROVE  row'[c.id].attempts = c.attempts
    BY <1>t, <1>i, <2>1, <2>2, <2>3 DEF OwnerIsCurrent, TypeOK
  <2>4. ASSUME NEW c \in batch'[w]
        PROVE  row'[c.id].attempts = c.attempts
    <3>1. PICK e \in Batch : c = [id |-> e, attempts |-> row[e].attempts]
      BY <1>t, <2>1, <2>4 DEF TypeOK
    <3>2. e \in Events
      BY <3>1 DEF Batch
    <3> QED
      BY <2>2, <3>1, <3>2
  <2> QED
    BY <2>3, <2>4 DEF OwnerIsCurrent
<1>2. ASSUME \A w \in Workers : batch'[w] \subseteq batch[w],
             \A e \in Events : \/ row'[e].owner \notin Workers
                               \/ /\ row'[e].owner = row[e].owner
                                  /\ row'[e].attempts = row[e].attempts
      PROVE  OwnerIsCurrent'
  <2> SUFFICES ASSUME NEW w \in Workers, NEW c \in batch'[w],
                      row'[c.id].owner = w
               PROVE  row'[c.id].attempts = c.attempts
    BY DEF OwnerIsCurrent
  <2>1. c \in batch[w] /\ c.id \in Events
    BY <1>2, <1>i
  <2> QED
    BY <1>2, <2>1 DEF OwnerIsCurrent
<1>3. ASSUME NEW w \in Workers,
             \/ MarkPublished(w) \/ MarkPublishedFails(w)
             \/ MarkFailed(w) \/ MarkFailedFails(w)
      PROVE  OwnerIsCurrent'
  <2>1. pc[w] # "idle" /\ Current(w).id \in Events
    BY <1>c, <1>3 DEF MarkPublished, MarkPublishedFails, MarkFailed, MarkFailedFails
  <2>2. RecordPublished(w) \/ RecordFailure(w) \/ UNCHANGED row
    BY <1>3 DEF MarkPublished, MarkPublishedFails, MarkFailed, MarkFailedFails
  <2>3. UNCHANGED row \/ Resolves(Current(w).id, w)
    BY <1>t, <2>1, <2>2, RecordResolves
  <2>4. \A e \in Events : \/ row'[e].owner \notin Workers
                          \/ /\ row'[e].owner = row[e].owner
                             /\ row'[e].attempts = row[e].attempts
    BY <2>3, OutboxAssumption DEF Resolves
  <2>5. NextEvent(w) \/ Abandon(w) \/ UNCHANGED batch
    BY <1>3 DEF MarkPublished, MarkPublishedFails, MarkFailed, MarkFailedFails
  <2>6. \A v \in Workers : batch'[v] \subseteq batch[v]
    <3> DEFINE rest == batch[w] \ {Current(w)}
    <3>1. rest \subseteq batch[w]
      OBVIOUS
    <3>2. batch' = [batch EXCEPT ![w] = rest] \/ batch' = [batch EXCEPT ![w] = {}]
            \/ UNCHANGED batch
      BY <2>5 DEF NextEvent, Abandon
    <3> HIDE DEF rest
    <3> QED
      BY <1>t, <3>1, <3>2 DEF TypeOK
  <2> QED
    BY <1>2, <2>4, <2>6
<1>4. ASSUME NEW w \in Workers, Crash(w)
      PROVE  OwnerIsCurrent'
  <2>1. \A e \in Events : row'[e] = IF row[e].owner = w
                                    THEN [row[e] EXCEPT !.owner = Gone] ELSE row[e]
    BY <1>4 DEF Crash
  <2>2. \A e \in Events : \/ row'[e].owner \notin Workers
                          \/ /\ row'[e].owner = row[e].owner
                             /\ row'[e].attempts = row[e].attempts
    BY <1>t, <2>1, OutboxAssumption DEF TypeOK, Row
  <2>3. \A v \in Workers : batch'[v] \subseteq batch[v]
    BY <1>t, <1>4 DEF Crash, Abandon, TypeOK
  <2> QED
    BY <1>2, <2>2, <2>3
<1>5. ASSUME NEW e \in Events,
             Insert(e) \/ LeaseExpires(e) \/ SlowBatch(e) \/ BackoffEnds(e)
      PROVE  OwnerIsCurrent'
  <2>1. /\ \/ row' = [row EXCEPT ![e].exists = TRUE]
           \/ row' = [row EXCEPT ![e].stale = TRUE]
           \/ row' = [row EXCEPT ![e].ready = TRUE]
        /\ UNCHANGED batch
    BY <1>5 DEF Insert, LeaseExpires, SlowBatch, BackoffEnds
  <2>21. \A f \in Events : row[f] \in Row
    BY <1>t DEF TypeOK
  <2>22. \A f \in Events : row'[f] = row[f] \/ f = e
    BY <1>t, <2>1 DEF TypeOK
  <2>23. \/ row'[e] = [row[e] EXCEPT !.exists = TRUE]
        \/ row'[e] = [row[e] EXCEPT !.stale = TRUE]
        \/ row'[e] = [row[e] EXCEPT !.ready = TRUE]
    BY <1>t, <2>1 DEF TypeOK
  <2>2. \A f \in Events : /\ row'[f].owner = row[f].owner
                          /\ row'[f].attempts = row[f].attempts
    <3>1. row'[e].owner = row[e].owner /\ row'[e].attempts = row[e].attempts
      BY <2>21, <2>23 DEF Row
    <3> QED
      BY <2>22, <3>1
  <2> QED
    BY <1>2, <2>1, <2>2
<1>6. ASSUME NEW e \in Events, Reprocess(e)
      PROVE  OwnerIsCurrent'
  <2>1. row'[e].owner = Nobody /\ \A f \in Events \ {e} : row'[f] = row[f]
    BY <1>t, <1>6 DEF Reprocess, TypeOK, Row
  <2> QED
    BY <1>2, <1>6, <2>1, OutboxAssumption DEF Reprocess
<1>7. ASSUME UNCHANGED <<row, batch>>
      PROVE  OwnerIsCurrent'
  BY <1>7 DEF OwnerIsCurrent
<1>8. ASSUME NEW w \in Workers, Add(w) \/ RouteFails(w) \/ AddFails(w)
      PROVE  OwnerIsCurrent'
  BY <1>7, <1>8 DEF Add, RouteFails, AddFails
<1>9. ASSUME NEW e \in Events, NEW o \in Outcomes, JobEnds(e, o)
      PROVE  OwnerIsCurrent'
  BY <1>7, <1>9 DEF JobEnds
<1>10. CASE UNCHANGED vars
  BY <1>7, <1>10 DEF vars
<1> QED
  BY <1>1, <1>3, <1>4, <1>5, <1>6, <1>8, <1>9, <1>10 DEF Next, Poll, Time

(* The budget of attempts is neither reset nor skipped by a takeover: what  *)
(* an owner counts on is what the row says, for any number of workers.      *)
THEOREM OwnerIsCurrentCorrect == Spec => []OwnerIsCurrent
<1>1. Init => OwnerIsCurrent
  BY DEF Init, OwnerIsCurrent
<1> QED
  BY <1>1, InitInv, NextInv, OwnerSteps, PTL DEF Spec
=============================================================================
