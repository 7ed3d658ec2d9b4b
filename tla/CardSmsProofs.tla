---------------------------- MODULE CardSmsProofs ----------------------------
(***************************************************************************)
(* Proofs about CardSms: the types, and, for any set of messages, parser   *)
(* releases and runners, the safety of verdicts, transactions and pushes.  *)
(***************************************************************************)
EXTENDS CardSms, TLAPS

-----------------------------------------------------------------------------
(* The inductive invariant. *)

Settled == Confirmed \cup {"ignored"}

(* Only what was read with confidence, or by a person, is confirmed. *)
ConfirmedByReader ==
  \A e \in Events : ev[e].status \in Confirmed => ev[e].by \notin {"none", "guess"}

(* A purchase that waits for its promotion was read by a job: people and    *)
(* the automatic recovery promote at once.                                  *)
UnpromotedFromJob ==
  \A e \in Events : Unpromoted(e) => ev[e].by \in {"rule", "repair"}

(* What a repair read can be told from its pipeline run. *)
RepairRecorded == \A e \in Events : ev[e].by = "repair" => e \in repairRun

(* What a runner relies on after it has read an event.                      *)
Reliance(r) ==
  LET e == task[r].event
      verdict == task[r].seen.verdict
  IN /\ task[r] \in Task
     /\ pc[r] \in {"load", "parse"} /\ task[r].repair => e \in repairRun
     /\ pc[r] = "parse" => verdict.status \notin Settled
     /\ pc[r] = "commit" => verdict = ev[e] /\ Purchase(ev[e])
     /\ pc[r] = "commit" /\ ~task[r].repair => ev[e].by = "rule"
     /\ pc[r] = "notify" => ev[e].status \in Confirmed /\ ev[e].by = "rule"

RunnersRely == \A r \in Runners : pc[r] # "idle" => Reliance(r)

PushedSettled ==
  \A e \in pushed : ev[e].status \in Confirmed /\ ev[e].by = "rule"

Inv == /\ TypeOK /\ ConfirmedByReader /\ UnpromotedFromJob /\ RepairRecorded
       /\ RunnersRely /\ PushedSettled
       /\ TransactionIsFounded /\ DuplicateIsFlagged

-----------------------------------------------------------------------------
(* Operators. *)

LEMMA ReadsType ==
  ASSUME TypeOK, NEW e \in Events
  PROVE  Reads(e) \in Readings
BY CardSmsAssumption DEF TypeOK, Reads

LEMMA SeenNowType ==
  ASSUME TypeOK, NEW e \in Events
  PROVE  SeenNow(e) \in Snapshot
BY DEF TypeOK, SeenNow, Snapshot

LEMMA NewTaskType ==
  ASSUME TypeOK, NEW e \in Events, NEW repair \in BOOLEAN
  PROVE  /\ NewTask(e, repair) \in Task
         /\ NewTask(e, repair).event = e
         /\ NewTask(e, repair).repair = repair
BY SeenNowType DEF NewTask, Task

(* What a reading is stored as: a verdict that is confirmed only by the     *)
(* reader itself, never by a guess.                                         *)
LEMMA DispositionsType ==
  ASSUME TypeOK, NEW e \in Events, NEW by \in {"rule", "repair"},
         NEW verdict \in Dispositions(e, by)
  PROVE  /\ verdict \in Verdict
         /\ verdict.by \in {by, "guess"}
         /\ verdict.by = "guess" => verdict.status = "quarantined"
<1>1. Reads(e) \in Readings
  BY ReadsType
<1> QED
  BY <1>1 DEF Dispositions, Readings, Verdict, Statuses, Types, Sources, Purchases

(* A verdict that is settled is not rewritten: what follows for the parts   *)
(* of the invariant that no other variable of the step can disturb.         *)
LEMMA KeptVerdicts ==
  ASSUME TypeOK, RunnersRely, PushedSettled,
         NEW f \in Events, ev[f].status \notin Settled,
         \A e \in Events \ {f} : ev'[e] = ev[e],
         UNCHANGED <<repairRun, pushed>>,
         NEW r \in Runners, pc[r] # "idle", pc'[r] = pc[r], task'[r] = task[r]
  PROVE  Reliance(r)'
<1>1. Reliance(r)
  BY DEF RunnersRely
<1>2. task[r].event \in Events
  BY <1>1 DEF Reliance, Task
<1>3. CASE task[r].event # f
  BY <1>1, <1>2, <1>3 DEF Reliance, Purchase
<1>4. CASE task[r].event = f
  BY <1>1, <1>2, <1>4 DEF Reliance, Purchase, Settled
<1> QED
  BY <1>3, <1>4

-----------------------------------------------------------------------------
(* Before any message has been read, nothing is promised to anyone.         *)
THEOREM InitInv == Init => Inv
<1> SUFFICES ASSUME Init PROVE Inv
  OBVIOUS
<1>1. TypeOK
  <2>1. ev \in [Events -> Verdict]
    BY DEF Init, Verdict, Statuses, Types, Sources
  <2>2. /\ runs \in [Events -> 0 .. MaxRuns] /\ age \in [Events -> 0 .. Lookback + 1]
        /\ days \in 0 .. MaxDays /\ fences \in 0 .. MaxFences
        /\ changes \in [Events -> Nat]
    BY CardSmsAssumption DEF Init
  <2> QED
    BY <2>1, <2>2, CardSmsAssumption DEF Init, TypeOK
<1>2. ConfirmedByReader /\ UnpromotedFromJob /\ RepairRecorded
  BY DEF Init, ConfirmedByReader, UnpromotedFromJob, Unpromoted, RepairRecorded,
         Purchase, Confirmed
<1>3. RunnersRely /\ PushedSettled /\ TransactionIsFounded
  BY DEF Init, RunnersRely, PushedSettled, TransactionIsFounded
<1>4. DuplicateIsFlagged
  BY CardSmsAssumption DEF Init, DuplicateIsFlagged
<1> QED
  BY <1>1, <1>2, <1>3, <1>4 DEF Inv

(* A step that leaves the events, transactions, pushes and runners alone.   *)
LEMMA QuietInv ==
  ASSUME Inv, TypeOK', UNCHANGED <<ev, tx, pushed, repairRun, pc, task>>
  PROVE  Inv'
<1>1. ConfirmedByReader' /\ UnpromotedFromJob' /\ RepairRecorded'
  BY DEF Inv, ConfirmedByReader, UnpromotedFromJob, Unpromoted, RepairRecorded, Purchase
<1>2. RunnersRely' /\ PushedSettled'
  BY DEF Inv, RunnersRely, Reliance, PushedSettled, Purchase
<1>3. TransactionIsFounded' /\ DuplicateIsFlagged'
  BY DEF Inv, TransactionIsFounded, DuplicateIsFlagged, Purchase
<1> QED
  BY <1>1, <1>2, <1>3 DEF Inv

(* A step of one runner that leaves the events and transactions alone.      *)
LEMMA RunnerInv ==
  ASSUME Inv, TypeOK', NEW r \in Runners,
         UNCHANGED <<ev, tx>>, repairRun \subseteq repairRun',
         \A q \in Runners \ {r} : pc'[q] = pc[q] /\ task'[q] = task[q],
         pc'[r] # "idle" => Reliance(r)',
         PushedSettled'
  PROVE  Inv'
<1>1. ConfirmedByReader' /\ UnpromotedFromJob' /\ RepairRecorded'
  BY DEF Inv, ConfirmedByReader, UnpromotedFromJob, Unpromoted, RepairRecorded, Purchase
<1>2. ASSUME NEW q \in Runners, q # r, pc'[q] # "idle"
      PROVE  Reliance(q)'
  BY <1>2 DEF Inv, RunnersRely, Reliance, Purchase
<1>3. RunnersRely'
  BY <1>2 DEF RunnersRely
<1>4. TransactionIsFounded' /\ DuplicateIsFlagged'
  BY DEF Inv, TransactionIsFounded, DuplicateIsFlagged, Purchase
<1> QED
  BY <1>1, <1>3, <1>4 DEF Inv

-----------------------------------------------------------------------------
(* The steps of a job. *)

LEMMA StartJobInv ==
  ASSUME Inv, NEW r \in Slots, NEW e \in Events, NEW repair \in BOOLEAN,
         StartJob(r, e, repair)
  PROVE  Inv'
<1> DEFINE t == NewTask(e, repair)
<1>t. TypeOK
  BY DEF Inv
<1>r. r \in Runners
  BY DEF Runners
<1>1. t \in Task /\ t.event = e /\ t.repair = repair
  BY <1>t, NewTaskType
<1> HIDE DEF t
<1>2. /\ task' = [task EXCEPT ![r] = t] /\ pc' = [pc EXCEPT ![r] = "load"]
      /\ runs' = [runs EXCEPT ![e] = @ + 1] /\ runs[e] < MaxRuns
      /\ repairRun' = IF repair THEN repairRun \cup {e} ELSE repairRun
      /\ UNCHANGED <<eventVars, pushed, adminVars, stallVars, fenceVars>>
  BY DEF StartJob, Goto, t
<1>3. runs' \in [Events -> 0 .. MaxRuns]
  BY <1>t, <1>2, CardSmsAssumption DEF TypeOK
<1>4. TypeOK'
  BY <1>t, <1>r, <1>1, <1>2, <1>3
     DEF TypeOK, eventVars, adminVars, stallVars, fenceVars
<1>5. pc'[r] = "load" /\ task'[r] = t
  BY <1>t, <1>r, <1>2 DEF TypeOK
<1>6. Reliance(r)'
  BY <1>1, <1>2, <1>5 DEF Reliance
<1>7. \A q \in Runners \ {r} : pc'[q] = pc[q] /\ task'[q] = task[q]
  BY <1>t, <1>2 DEF TypeOK
<1>8. PushedSettled'
  BY <1>2 DEF Inv, PushedSettled, eventVars
<1> QED
  BY <1>r, <1>2, <1>4, <1>6, <1>7, <1>8, RunnerInv DEF eventVars

(* What End does, and what a change of a single runner leaves alone. *)
LEMMA EndType ==
  ASSUME TypeOK, NEW r \in Runners, End(r)
  PROVE  /\ pc' \in [Runners -> {"idle", "load", "parse", "promote", "commit",
                             "notify"}]
         /\ task' \in [Runners -> Task \cup {Nothing}]
         /\ pc'[r] = "idle"
         /\ \A q \in Runners \ {r} : pc'[q] = pc[q] /\ task'[q] = task[q]
BY DEF TypeOK, End, Goto

LEMMA EndInv ==
  ASSUME Inv, NEW r \in Runners, End(r), stalled' \in SUBSET Events,
         pushed' \in SUBSET Events, PushedSettled',
         UNCHANGED <<eventVars, runs, repairRun, adminVars, age, alerted,
                     checked, days, fenceVars>>
  PROVE  Inv'
<1>t. TypeOK
  BY DEF Inv
<1>1. TypeOK'
  BY <1>t, EndType DEF TypeOK, eventVars, adminVars, fenceVars
<1> QED
  BY <1>t, <1>1, EndType, RunnerInv DEF eventVars

LEMMA KeptPushes ==
  ASSUME Inv, UNCHANGED <<ev, pushed>>
  PROVE  PushedSettled'
BY DEF Inv, PushedSettled

LEMMA LoadInv ==
  ASSUME Inv, NEW r \in Slots, Load(r)
  PROVE  Inv'
<1> DEFINE e    == task[r].event
           next == AfterLoad(e, task[r].repair)
           t    == [task[r] EXCEPT !.seen = SeenNow(e)]
<1>t. TypeOK
  BY DEF Inv
<1>r. r \in Runners
  BY DEF Runners
<1>0. PushedSettled'
  BY KeptPushes DEF Load, eventVars
<1>1. /\ Reliance(r) /\ task[r] \in Task /\ e \in Events
      /\ pc[r] = "load" /\ task[r].repair \in BOOLEAN
  BY <1>r DEF Load, Inv, RunnersRely, Reliance, Task
<1>2. CASE next = "idle"
  <2>1. End(r) /\ stalled' \in SUBSET Events /\ pushed' \in SUBSET Events
    BY <1>t, <1>2 DEF Load, TypeOK, stallVars
  <2> QED
    BY <1>0, <1>r, <2>1, EndInv DEF Load, stallVars
<1>3. CASE next # "idle"
  <2>1. /\ pc' = [pc EXCEPT ![r] = next] /\ task' = [task EXCEPT ![r] = t]
        /\ UNCHANGED <<eventVars, pushed, runs, repairRun, adminVars, stallVars,
                       fenceVars>>
    BY <1>3 DEF Load, Goto
  <2>2. next \in {"parse", "promote"}
    BY <1>1, <1>3 DEF AfterLoad
  <2>3. next = "parse" => ev[e].status \notin Settled
    BY <1>1 DEF AfterLoad, GuardHolds, Settled, Confirmed
  <2>4. t \in Task /\ t.event = e /\ t.repair = task[r].repair
          /\ t.seen = SeenNow(e)
    BY <1>t, <1>1, SeenNowType DEF Task
  <2>5. t.seen.verdict = ev[e]
    BY <2>4 DEF SeenNow
  <2> HIDE DEF t, next
  <2>6. TypeOK'
    BY <1>t, <1>r, <2>1, <2>2, <2>4
       DEF TypeOK, eventVars, adminVars, stallVars, fenceVars
  <2>7. pc'[r] = next /\ task'[r] = t
    BY <1>t, <1>r, <2>1 DEF TypeOK
  <2>8. Reliance(r)'
    BY <1>1, <2>1, <2>2, <2>3, <2>4, <2>5, <2>7 DEF Reliance, eventVars
  <2>9. \A q \in Runners \ {r} : pc'[q] = pc[q] /\ task'[q] = task[q]
    BY <1>t, <2>1 DEF TypeOK
  <2> QED
    BY <1>0, <1>r, <2>1, <2>6, <2>8, <2>9, RunnerInv DEF eventVars
<1> QED
  BY <1>2, <1>3

(* A verdict stored on a row that was not settled. *)
LEMMA StoreVerdicts ==
  ASSUME Inv, NEW e \in Events, NEW verdict \in Verdict, Store(e, verdict),
         ev[e].status \notin Settled, repairRun' = repairRun,
         verdict.status \in Confirmed => verdict.by \notin {"none", "guess"},
         verdict.by = "repair" => e \in repairRun,
         pushed' = pushed
  PROVE  /\ ev' \in [Events -> Verdict] /\ changes' \in [Events -> Nat]
         /\ ev'[e] = verdict /\ e \notin pushed
         /\ \A f \in Events \ {e} : ev'[f] = ev[f]
         /\ ConfirmedByReader' /\ RepairRecorded' /\ PushedSettled'
<1>t. TypeOK
  BY DEF Inv
<1>1. ev' = [ev EXCEPT ![e] = verdict] /\ changes' = [changes EXCEPT ![e] = @ + 1]
  BY DEF Store
<1>2. /\ ev' \in [Events -> Verdict] /\ ev'[e] = verdict
      /\ \A f \in Events \ {e} : ev'[f] = ev[f]
  BY <1>t, <1>1 DEF TypeOK
<1>3. changes' \in [Events -> Nat]
  BY <1>t, <1>1 DEF TypeOK
<1>4. ConfirmedByReader'
  BY <1>2 DEF Inv, ConfirmedByReader
<1>5. RepairRecorded'
  BY <1>2 DEF Inv, RepairRecorded
<1>6. e \notin pushed
  BY DEF Inv, PushedSettled, Settled
<1>7. PushedSettled'
  BY <1>t, <1>2, <1>6 DEF Inv, PushedSettled, TypeOK
<1> QED
  BY <1>2, <1>3, <1>4, <1>5, <1>6, <1>7

LEMMA WriteInv ==
  ASSUME Inv, NEW r \in Slots, Write(r)
  PROVE  Inv'
<1> DEFINE e  == task[r].event
           by == IF task[r].repair THEN "repair" ELSE "rule"
<1>t. TypeOK
  BY DEF Inv
<1>r. r \in Runners
  BY DEF Runners
<1>1. /\ Reliance(r) /\ task[r] \in Task /\ e \in Events
      /\ pc[r] = "parse" /\ task[r].repair \in BOOLEAN
  BY <1>r DEF Write, Inv, RunnersRely, Reliance, Task
<1>2. task[r].seen.verdict.status \notin Settled
  BY <1>1 DEF Reliance
<1>3. CASE StillAsSeen(e, task[r].seen)
  <2>1. ev[e].status \notin Settled /\ tx[e] = Nothing
    BY <1>2, <1>3 DEF StillAsSeen, SeenNow
  <2>2. PICK verdict \in Dispositions(e, by) :
          /\ Store(e, verdict)
          /\ IF Purchase(verdict) THEN Goto(r, "promote") /\ UNCHANGED task
             ELSE End(r)
    BY <1>3 DEF Write
  <2>3. UNCHANGED <<tx, pushed, runs, repairRun, adminVars, stallVars, fenceVars>>
    BY DEF Write
  <2>4. by \in {"rule", "repair"} /\ (by = "repair" => task[r].repair)
    OBVIOUS
  <2>5. /\ verdict \in Verdict /\ verdict.by \in {by, "guess"}
        /\ verdict.by = "guess" => verdict.status = "quarantined"
    BY <1>t, <1>1, <2>4, DispositionsType
  <2>6. by = "repair" => e \in repairRun
    BY <1>1, <2>4 DEF Reliance
  <2> HIDE DEF by
  <2>7. verdict.status \in Confirmed => verdict.by \in {"rule", "repair"}
    BY <2>4, <2>5 DEF Confirmed
  <2>8. /\ ev' \in [Events -> Verdict] /\ changes' \in [Events -> Nat]
        /\ ev'[e] = verdict /\ e \notin pushed
        /\ \A f \in Events \ {e} : ev'[f] = ev[f]
        /\ ConfirmedByReader' /\ RepairRecorded' /\ PushedSettled'
    <3> HIDE DEF e
    <3>1. verdict.by = "repair" => e \in repairRun
      BY <2>5, <2>6
    <3>2. verdict.status \in Confirmed => verdict.by \notin {"none", "guess"}
      BY <2>7
    <3> QED
      BY <1>1, <2>1, <2>2, <2>3, <2>5, <3>1, <3>2, StoreVerdicts
  <2>9. UnpromotedFromJob'
    BY <2>3, <2>7, <2>8 DEF Inv, UnpromotedFromJob, Unpromoted, Purchase
  <2>10. TransactionIsFounded'
    BY <2>1, <2>3, <2>8 DEF Inv, TransactionIsFounded, Purchase
  <2>11. DuplicateIsFlagged'
    BY <2>3 DEF Inv, DuplicateIsFlagged
  <2>12. /\ pc' \in [Runners -> {"idle", "load", "parse", "promote", "commit",
                             "notify"}]
         /\ task' \in [Runners -> Task \cup {Nothing}]
         /\ \A q \in Runners \ {r} : pc'[q] = pc[q] /\ task'[q] = task[q]
         /\ pc'[r] \in {"idle", "promote"}
         /\ pc'[r] = "promote" => task'[r] = task[r]
    <3>1. CASE Purchase(verdict)
      BY <1>t, <1>r, <2>2, <3>1 DEF Goto, TypeOK
    <3>2. CASE ~Purchase(verdict)
      BY <1>t, <1>r, <2>2, <3>2, EndType
    <3> QED
      BY <3>1, <3>2
  <2>13. TypeOK'
    BY <1>t, <2>3, <2>8, <2>12 DEF TypeOK, adminVars, stallVars, fenceVars
  <2>14. RunnersRely'
    <3> SUFFICES ASSUME NEW q \in Runners, pc'[q] # "idle"
                 PROVE  Reliance(q)'
      BY DEF RunnersRely
    <3>1. CASE q = r
      BY <1>1, <2>3, <2>12, <3>1 DEF Reliance
    <3>2. CASE q # r
      <4>1. pc'[q] = pc[q] /\ task'[q] = task[q]
        BY <2>12, <3>2
      <4> HIDE DEF e
      <4> QED
        BY <1>t, <1>1, <2>1, <2>3, <2>8, <4>1, KeptVerdicts DEF Inv
    <3> QED
      BY <3>1, <3>2
  <2> QED
    BY <2>8, <2>9, <2>10, <2>11, <2>13, <2>14 DEF Inv
<1>4. CASE ~StillAsSeen(e, task[r].seen)
  <2>1. /\ End(r) /\ stalled' \in SUBSET Events /\ pushed' \in SUBSET Events
        /\ UNCHANGED <<eventVars, pushed, runs, repairRun, adminVars, stallVars,
                       fenceVars>>
    BY <1>t, <1>4 DEF Write, TypeOK, stallVars, eventVars
  <2>2. PushedSettled'
    BY <2>1, KeptPushes DEF eventVars
  <2> QED
    BY <1>r, <2>1, <2>2, EndInv DEF stallVars
<1> QED
  BY <1>3, <1>4

-----------------------------------------------------------------------------
(* The steps of a promotion. *)

LEMMA PrepareInv ==
  ASSUME Inv, NEW r \in Runners, Prepare(r)
  PROVE  Inv'
<1> DEFINE e == task[r].event
           t == [event |-> e, repair |-> task[r].repair \/ e \in repairRun,
                 seen |-> SeenNow(e), duplicate |-> DuplicateApproval(e)]
<1>t. TypeOK
  BY DEF Inv
<1>0. PushedSettled'
  BY KeptPushes DEF Prepare, eventVars
<1>1. Reliance(r) /\ task[r] \in Task /\ e \in Events /\ task[r].repair \in BOOLEAN
  BY DEF Prepare, Inv, RunnersRely, Reliance, Task
<1>2. CASE Unpromoted(e)
  <2>1. /\ pc' = [pc EXCEPT ![r] = "commit"] /\ task' = [task EXCEPT ![r] = t]
        /\ UNCHANGED <<eventVars, pushed, runs, repairRun, adminVars, stallVars,
                       fenceVars>>
    BY <1>2 DEF Prepare, Goto, Unpromoted
  <2>2. t \in Task
    BY <1>t, <1>1, SeenNowType DEF Task, DuplicateApproval
  <2>3. t.event = e /\ t.seen.verdict = ev[e] /\ t.repair = (task[r].repair \/ e \in repairRun)
    BY DEF SeenNow
  <2>4. ~t.repair => ev[e].by = "rule"
    BY <1>1, <1>2, <2>3 DEF Inv, UnpromotedFromJob, RepairRecorded
  <2> HIDE DEF t
  <2>5. TypeOK'
    BY <1>t, <2>1, <2>2 DEF TypeOK, eventVars, adminVars, stallVars, fenceVars
  <2>6. pc'[r] = "commit" /\ task'[r] = t
    BY <1>t, <2>1 DEF TypeOK
  <2>7. Reliance(r)'
    BY <1>2, <2>1, <2>2, <2>3, <2>4, <2>6 DEF Reliance, eventVars, Unpromoted, Purchase
  <2>8. \A q \in Runners \ {r} : pc'[q] = pc[q] /\ task'[q] = task[q]
    BY <1>t, <2>1 DEF TypeOK
  <2> QED
    BY <1>0, <2>1, <2>5, <2>7, <2>8, RunnerInv DEF eventVars
<1>3. CASE ~Unpromoted(e)
  <2>1. End(r) /\ stalled' \in SUBSET Events /\ pushed' \in SUBSET Events
    BY <1>t, <1>3 DEF Prepare, TypeOK, stallVars, Unpromoted
  <2> QED
    BY <1>0, <2>1, EndInv DEF Prepare, stallVars
<1> QED
  BY <1>2, <1>3

(* A transaction is made: it is flagged if the message has a promoted twin. *)
LEMMA AddedTransaction ==
  ASSUME Inv, NEW e \in Events, NEW new \in Transaction, tx[e] = Nothing,
         tx' = [tx EXCEPT ![e] = new],
         (new.type = "approval" /\ new.by # "person" /\ new.flag = "none")
           => ~DuplicateApproval(e)
  PROVE  /\ tx' \in [Events -> Transaction \cup {Nothing}]
         /\ tx'[e] = new /\ new # Nothing
         /\ \A f \in Events \ {e} : tx'[f] = tx[f]
         /\ DuplicateIsFlagged'
<1>t. TypeOK
  BY DEF Inv
<1>1. /\ tx' \in [Events -> Transaction \cup {Nothing}] /\ tx'[e] = new
      /\ \A f \in Events \ {e} : tx'[f] = tx[f]
  BY <1>t DEF TypeOK
<1>2. new # Nothing
  BY CardSmsAssumption
<1> DEFINE Unflagged(x) == /\ x # Nothing /\ x.type = "approval"
                           /\ x.by # "person" /\ x.flag = "none"
<1>3. ASSUME NEW t \in Twins, Unflagged(tx'[t[1]]), Unflagged(tx'[t[2]])
      PROVE  FALSE
  <2>1. /\ t[1] \in Events /\ t[2] \in Events /\ t[1] # t[2]
        /\ <<t[2], t[1]>> \in Twins
    BY CardSmsAssumption
  <2>2. CASE t[1] = e
    <3>1. tx'[t[2]] = tx[t[2]]
      BY <1>1, <2>1, <2>2
    <3>2. DuplicateApproval(e)
      BY <1>3, <2>2, <3>1 DEF DuplicateApproval
    <3> QED
      BY <1>1, <1>3, <2>2, <3>2
  <2>3. CASE t[2] = e
    <3>1. tx'[t[1]] = tx[t[1]]
      BY <1>1, <2>1, <2>3
    <3>2. DuplicateApproval(e)
      <4>1. <<e, t[1]>> \in Twins
        BY <2>1, <2>3
      <4> QED
        BY <1>3, <3>1, <4>1 DEF DuplicateApproval
    <3> QED
      BY <1>1, <1>3, <2>3, <3>2
  <2>4. CASE t[1] # e /\ t[2] # e
    <3>1. tx'[t[1]] = tx[t[1]] /\ tx'[t[2]] = tx[t[2]]
      BY <1>1, <2>1, <2>4
    <3> QED
      BY <1>3, <3>1 DEF Inv, DuplicateIsFlagged
  <2> QED
    BY <2>2, <2>3, <2>4
<1>4. DuplicateIsFlagged'
  BY <1>3 DEF DuplicateIsFlagged
<1> QED
  BY <1>1, <1>2, <1>4

LEMMA CommitInv ==
  ASSUME Inv, NEW r \in Runners, Commit(r)
  PROVE  Inv'
<1> DEFINE e   == task[r].event
           verdict == task[r].seen.verdict
           new == [type |-> verdict.type, by |-> verdict.by, flag |-> FlagFor(task[r])]
<1>t. TypeOK
  BY DEF Inv
<1>0. /\ PushedSettled'
      /\ UNCHANGED <<ev, changes, pushed, runs, repairRun, adminVars, stallVars,
                     fenceVars>>
  BY KeptPushes DEF Commit
<1>1. Reliance(r) /\ task[r] \in Task /\ e \in Events /\ pc[r] = "commit"
  BY DEF Commit, Inv, RunnersRely, Reliance, Task
<1>2. verdict = ev[e] /\ Purchase(ev[e])
  BY <1>1 DEF Reliance
<1>3. CASE tx[e] # Nothing
  <2>1. /\ End(r) /\ UNCHANGED tx
        /\ stalled' \in SUBSET Events /\ pushed' \in SUBSET Events
    BY <1>t, <1>0, <1>3 DEF Commit, TypeOK, stallVars
  <2> QED
    BY <1>0, <2>1, EndInv DEF stallVars, eventVars
<1>4. CASE tx[e] = Nothing
  <2>1. /\ tx' = [tx EXCEPT ![e] = new]
        /\ IF task[r].repair THEN End(r) ELSE Goto(r, "notify") /\ UNCHANGED task
    BY <1>4 DEF Commit
  <2>2. new \in Transaction
    <3>1. verdict \in Verdict /\ verdict.by \notin {"none", "guess"}
            /\ verdict.type \in Purchases
      BY <1>t, <1>1, <1>2 DEF TypeOK, Inv, ConfirmedByReader, Purchase
    <3>2. FlagFor(task[r]) \in {"none", "pending_review", "duplicate_suspected"}
      BY DEF FlagFor
    <3> HIDE DEF verdict
    <3> QED
      BY <3>1, <3>2 DEF Transaction, Verdict, Sources
  <2>3. (new.type = "approval" /\ new.by # "person" /\ new.flag = "none")
          => ~DuplicateApproval(e)
    BY DEF FlagFor
  <2>4. new.type = verdict.type /\ new.by = verdict.by
    OBVIOUS
  <2> HIDE DEF new
  <2>5. /\ tx' \in [Events -> Transaction \cup {Nothing}]
        /\ tx'[e] = new /\ new # Nothing
        /\ \A f \in Events \ {e} : tx'[f] = tx[f]
        /\ DuplicateIsFlagged'
    <3> HIDE DEF e
    <3> QED
      BY <1>1, <1>4, <2>1, <2>2, <2>3, AddedTransaction
  <2>6. TransactionIsFounded'
    <3>1. ev[e].by # "guess"
      BY <1>1, <1>2 DEF Inv, ConfirmedByReader, Purchase
    <3> QED
      BY <1>0, <1>2, <2>4, <2>5, <3>1 DEF Inv, TransactionIsFounded, Purchase
  <2>7. /\ pc' \in [Runners -> {"idle", "load", "parse", "promote", "commit",
                             "notify"}]
        /\ task' \in [Runners -> Task \cup {Nothing}]
        /\ \A q \in Runners \ {r} : pc'[q] = pc[q] /\ task'[q] = task[q]
        /\ pc'[r] # "idle" => pc'[r] = "notify" /\ task'[r] = task[r]
                              /\ ~task[r].repair
    <3>1. CASE task[r].repair
      BY <1>t, <2>1, <3>1, EndType
    <3>2. CASE ~task[r].repair
      BY <1>t, <2>1, <3>2 DEF Goto, TypeOK
    <3> QED
      BY <3>1, <3>2
  <2>8. TypeOK'
    BY <1>t, <1>0, <2>5, <2>7 DEF TypeOK, adminVars, stallVars, fenceVars
  <2>9. RunnersRely'
    <3> SUFFICES ASSUME NEW q \in Runners, pc'[q] # "idle"
                 PROVE  Reliance(q)'
      BY DEF RunnersRely
    <3>1. CASE q = r
      BY <1>0, <1>1, <1>2, <2>7, <3>1 DEF Reliance, Purchase
    <3>2. CASE q # r
      <4>1. pc'[q] = pc[q] /\ task'[q] = task[q] /\ Reliance(q)
        BY <2>7, <3>2 DEF Inv, RunnersRely
      <4> QED
        BY <1>0, <4>1 DEF Reliance, Purchase
    <3> QED
      BY <3>1, <3>2
  <2>10. ConfirmedByReader' /\ RepairRecorded'
    BY <1>0 DEF Inv, ConfirmedByReader, RepairRecorded
  <2>11. UnpromotedFromJob'
    BY <1>0, <1>4, <2>5 DEF Inv, UnpromotedFromJob, Unpromoted, Purchase
  <2> QED
    BY <1>0, <2>5, <2>6, <2>8, <2>9, <2>10, <2>11 DEF Inv
<1> QED
  BY <1>3, <1>4

LEMMA NotifyInv ==
  ASSUME Inv, NEW r \in Runners, Notify(r)
  PROVE  Inv'
<1>1. Reliance(r) /\ task[r].event \in Events /\ pc[r] = "notify"
  BY DEF Notify, Inv, RunnersRely, Reliance, Task
<1>2. ev[task[r].event].status \in Confirmed /\ ev[task[r].event].by = "rule"
  BY <1>1 DEF Reliance
<1>3. PushedSettled' /\ pushed' \in SUBSET Events
  BY <1>1, <1>2 DEF Notify, Inv, TypeOK, PushedSettled, eventVars
<1>4. End(r) /\ stalled' \in SUBSET Events
  BY DEF Notify, Inv, TypeOK, stallVars
<1> QED
  BY <1>3, <1>4, EndInv DEF Notify, stallVars

LEMMA StopInv ==
  ASSUME Inv, NEW r \in Runners, Rejected(r) \/ Crash(r)
  PROVE  Inv'
<1>1. /\ End(r) /\ stalled' \in SUBSET Events /\ pushed' \in SUBSET Events
      /\ UNCHANGED <<eventVars, pushed, runs, repairRun, adminVars, age, alerted,
                     checked, days, fenceVars>>
  BY DEF Rejected, Crash, Inv, TypeOK, stallVars
<1>2. PushedSettled'
  BY <1>1, KeptPushes DEF eventVars
<1> QED
  BY <1>1, <1>2, EndInv

-----------------------------------------------------------------------------
(* People, the automatic recovery, the stall check and the fence. *)

(* A verdict that is stored with its transaction, by nobody's job.          *)
LEMMA SettledAtOnce ==
  ASSUME Inv, NEW e \in Events, NEW verdict \in Verdict, Store(e, verdict),
         ev[e].status \notin Settled, tx[e] = Nothing,
         verdict.status = "parsed", verdict.by \in {"person", "policy"},
         \/ verdict.type = "declined" /\ tx' = tx
         \/ \E new \in Transaction :
              /\ new.type = verdict.type /\ new.by = verdict.by
              /\ tx' = [tx EXCEPT ![e] = new]
              /\ (new.type = "approval" /\ new.by # "person" /\ new.flag = "none")
                    => ~DuplicateApproval(e),
         UNCHANGED <<pushed, jobVars, plan, parser, stallVars, fenceVars>>,
         policy' \in Events \cup {Nothing},
         candidate' \in Candidate \cup {Nothing}
  PROVE  Inv'
<1>t. TypeOK
  BY DEF Inv
<1>1. /\ ev' \in [Events -> Verdict] /\ changes' \in [Events -> Nat]
      /\ ev'[e] = verdict /\ e \notin pushed
      /\ \A f \in Events \ {e} : ev'[f] = ev[f]
      /\ ConfirmedByReader' /\ RepairRecorded' /\ PushedSettled'
  BY StoreVerdicts DEF jobVars
<1>2. ASSUME NEW new \in Transaction,
             new.type = verdict.type, new.by = verdict.by,
             tx' = [tx EXCEPT ![e] = new],
             (new.type = "approval" /\ new.by # "person" /\ new.flag = "none")
               => ~DuplicateApproval(e)
      PROVE  /\ DuplicateIsFlagged' /\ tx' \in [Events -> Transaction \cup {Nothing}]
             /\ TransactionIsFounded' /\ UnpromotedFromJob'
  <2>1. /\ tx' \in [Events -> Transaction \cup {Nothing}]
        /\ tx'[e] = new /\ new # Nothing
        /\ \A f \in Events \ {e} : tx'[f] = tx[f]
        /\ DuplicateIsFlagged'
    BY <1>2, AddedTransaction
  <2>2. new.type \in Purchases
    BY DEF Transaction
  <2>3. TransactionIsFounded'
    BY <1>1, <1>2, <2>1, <2>2 DEF Inv, TransactionIsFounded, Purchase, Confirmed
  <2>4. UnpromotedFromJob'
    BY <1>1, <2>1 DEF Inv, UnpromotedFromJob, Unpromoted, Purchase
  <2> QED
    BY <2>1, <2>3, <2>4
<1>3. /\ DuplicateIsFlagged' /\ tx' \in [Events -> Transaction \cup {Nothing}]
      /\ TransactionIsFounded' /\ UnpromotedFromJob'
  <2>1. CASE verdict.type = "declined" /\ tx' = tx
    <3>1. DuplicateIsFlagged' /\ tx' \in [Events -> Transaction \cup {Nothing}]
      BY <1>t, <2>1 DEF Inv, DuplicateIsFlagged, TypeOK
    <3>2. TransactionIsFounded'
      BY <1>1, <2>1 DEF Inv, TransactionIsFounded, Purchase
    <3>3. UnpromotedFromJob'
      BY <1>1, <2>1 DEF Inv, UnpromotedFromJob, Unpromoted, Purchase, Purchases
    <3> QED
      BY <3>1, <3>2, <3>3
  <2> QED
    BY <1>2, <2>1
<1>4. TypeOK'
  BY <1>t, <1>1, <1>3 DEF TypeOK, jobVars, stallVars, fenceVars
<1>5. RunnersRely'
  <2> SUFFICES ASSUME NEW q \in Runners, pc'[q] # "idle"
               PROVE  Reliance(q)'
    BY DEF RunnersRely
  <2> QED
    BY <1>t, <1>1, KeptVerdicts DEF Inv, jobVars
<1> QED
  BY <1>1, <1>3, <1>4, <1>5 DEF Inv

LEMMA ReviewInv ==
  ASSUME Inv, NEW e \in Events, NEW type \in Types \ {"none"},
         NEW reuse \in BOOLEAN, Review(e, type, reuse)
  PROVE  Inv'
<1> DEFINE verdict == [status |-> "parsed", type |-> type, by |-> "person"]
           new == [type |-> type, by |-> "person", flag |-> "none"]
<1>1. verdict \in Verdict /\ verdict.type = type /\ verdict.by = "person"
        /\ verdict.status = "parsed"
  BY DEF Verdict, Statuses, Sources
<1>2. type # "declined" => new \in Transaction
  BY DEF Transaction, Types, Purchases, Sources
<1>3. new.type = type /\ new.by = "person"
  OBVIOUS
<1>4. /\ Store(e, verdict) /\ ev[e].status \notin Settled /\ tx[e] = Nothing
      /\ tx' = IF type = "declined" THEN tx ELSE [tx EXCEPT ![e] = new]
      /\ policy' = IF reuse THEN e ELSE policy
      /\ UNCHANGED <<pushed, jobVars, plan, parser, candidate, stallVars, fenceVars>>
  BY DEF Review, Unread, Settled, Confirmed
<1> HIDE DEF verdict, new
<1>5. policy' \in Events \cup {Nothing} /\ candidate' \in Candidate \cup {Nothing}
  BY <1>4 DEF Inv, TypeOK
<1>6. CASE type = "declined"
  BY <1>1, <1>4, <1>5, <1>6, SettledAtOnce
<1>7. CASE type # "declined"
  BY <1>1, <1>2, <1>3, <1>4, <1>5, <1>7, SettledAtOnce
<1> QED
  BY <1>6, <1>7

LEMMA AutoApplyInv ==
  ASSUME Inv, AutoApply
  PROVE  Inv'
<1> DEFINE e == candidate.event
           verdict == [status |-> "parsed", type |-> "approval", by |-> "policy"]
           new == [type |-> "approval", by |-> "policy", flag |-> "none"]
<1>t. TypeOK
  BY DEF Inv
<1>0. candidate \in Candidate /\ candidate' = Nothing
  BY <1>t DEF AutoApply, TypeOK
<1>1. e \in Events
  BY <1>0 DEF Candidate
<1>2. verdict \in Verdict /\ new \in Transaction
  BY DEF Verdict, Statuses, Sources, Types, Transaction, Purchases
<1>3. UNCHANGED <<pushed, jobVars, plan, parser, policy, stallVars, fenceVars>>
  BY DEF AutoApply
<1>4. policy' \in Events \cup {Nothing} /\ candidate' \in Candidate \cup {Nothing}
  BY <1>t, <1>0, <1>3 DEF TypeOK
<1>5. CASE AutoAllowed(candidate)
  <2>1. /\ Store(e, verdict) /\ tx' = [tx EXCEPT ![e] = new]
        /\ ev[e].status \notin Settled /\ tx[e] = Nothing /\ ~DuplicateApproval(e)
    BY <1>5 DEF AutoApply, AutoAllowed, Unread, Settled, Confirmed
  <2>2. /\ verdict.status = "parsed" /\ verdict.by = "policy"
        /\ new.type = verdict.type /\ new.by = verdict.by
    OBVIOUS
  <2> HIDE DEF verdict, new, e
  <2> QED
    BY <1>1, <1>2, <1>3, <1>4, <2>1, <2>2, SettledAtOnce
<1>6. CASE ~AutoAllowed(candidate)
  <2>1. UNCHANGED eventVars
    BY <1>6 DEF AutoApply
  <2>2. TypeOK'
    BY <1>t, <1>3, <1>4, <2>1
       DEF TypeOK, eventVars, jobVars, stallVars, fenceVars
  <2> QED
    BY <1>3, <2>1, <2>2, QuietInv DEF eventVars, jobVars
<1> QED
  BY <1>5, <1>6

LEMMA TickVisitInv ==
  ASSUME Inv, NEW e \in Events, TickVisit(e)
  PROVE  Inv'
<1> DEFINE t     == NewTask(e, FALSE)
           drive == alerted[e] = "no" /\ ~paused
<1>t. TypeOK /\ Scheduler \in Runners
  BY DEF Inv, Runners
<1>0. /\ stalled' \in SUBSET Events /\ checked' \in BOOLEAN
      /\ alerted' \in [Events -> {"no", "driven", "skipped"}]
      /\ UNCHANGED <<eventVars, pushed, runs, repairRun, adminVars, age, days,
                     fenceVars>>
  BY <1>t DEF TickVisit, TypeOK
<1>1. t \in Task /\ t.event = e /\ t.repair = FALSE
  BY <1>t, NewTaskType
<1>2. PushedSettled'
  BY <1>0, KeptPushes DEF eventVars
<1>3. CASE drive
  <2>1. /\ task' = [task EXCEPT ![Scheduler] = t]
        /\ pc' = [pc EXCEPT ![Scheduler] = "promote"]
    BY <1>3 DEF TickVisit, Goto
  <2> HIDE DEF t
  <2>2. TypeOK'
    BY <1>t, <1>0, <1>1, <2>1 DEF TypeOK, eventVars, adminVars, fenceVars
  <2>3. pc'[Scheduler] = "promote" /\ task'[Scheduler] = t
    BY <1>t, <2>1 DEF TypeOK
  <2>4. Reliance(Scheduler)'
    BY <1>1, <2>3 DEF Reliance
  <2>5. \A q \in Runners \ {Scheduler} : pc'[q] = pc[q] /\ task'[q] = task[q]
    BY <1>t, <2>1 DEF TypeOK
  <2> QED
    BY <1>t, <1>0, <1>2, <2>2, <2>4, <2>5, RunnerInv DEF eventVars
<1>4. CASE ~drive
  <2>1. UNCHANGED <<pc, task>>
    BY <1>4 DEF TickVisit
  <2>2. TypeOK'
    BY <1>t, <1>0, <2>1 DEF TypeOK, eventVars, adminVars, fenceVars
  <2> QED
    BY <1>0, <2>1, <2>2, QuietInv DEF eventVars
<1> QED
  BY <1>3, <1>4

(* The other steps of an operator, the recovery and the stall check.        *)
LEMMA QuietSteps ==
  ASSUME Inv,
         \/ \E e \in Events : PlanRepair(e) \/ AutoScan(e) \/ Elapse(e)
         \/ Deploy \/ Midnight \/ TickRead
  PROVE  Inv'
<1>t. TypeOK
  BY DEF Inv
<1>1. ASSUME NEW e \in Events, PlanRepair(e)
      PROVE  Inv'
  <2>1. [changes |-> changes[e], reading |-> Reads(e)] \in Plan
    BY <1>t, ReadsType DEF TypeOK, Plan
  <2>2. plan' \in [Events -> Plan \cup {Nothing}]
    BY <1>t, <1>1, <2>1 DEF PlanRepair, TypeOK
  <2>3. TypeOK' /\ UNCHANGED <<ev, tx, pushed, repairRun, pc, task>>
    BY <1>t, <1>1, <2>2
       DEF PlanRepair, TypeOK, eventVars, jobVars, stallVars, fenceVars
  <2> QED
    BY <2>3, QuietInv
<1>2. ASSUME NEW e \in Events, AutoScan(e)
      PROVE  Inv'
  <2>1. [event |-> e, changes |-> changes[e], policy |-> policy] \in Candidate
    BY <1>t DEF TypeOK, Candidate
  <2>2. TypeOK' /\ UNCHANGED <<ev, tx, pushed, repairRun, pc, task>>
    BY <1>t, <1>2, <2>1
       DEF AutoScan, TypeOK, eventVars, jobVars, stallVars, fenceVars
  <2> QED
    BY <2>2, QuietInv
<1>3. ASSUME NEW e \in Events, Elapse(e)
      PROVE  Inv'
  <2>1. age' \in [Events -> 0 .. Lookback + 1]
    BY <1>t, <1>3, CardSmsAssumption DEF Elapse, TypeOK
  <2>2. TypeOK' /\ UNCHANGED <<ev, tx, pushed, repairRun, pc, task>>
    BY <1>t, <1>3, <2>1 DEF Elapse, TypeOK, eventVars, jobVars, adminVars, fenceVars
  <2> QED
    BY <2>2, QuietInv
<1>4. ASSUME Deploy
      PROVE  Inv'
  <2>1. TypeOK' /\ UNCHANGED <<ev, tx, pushed, repairRun, pc, task>>
    BY <1>t, <1>4 DEF Deploy, TypeOK, eventVars, jobVars, stallVars, fenceVars
  <2> QED
    BY <2>1, QuietInv
<1>5. ASSUME Midnight
      PROVE  Inv'
  <2>1. age' \in [Events -> 0 .. Lookback + 1] /\ days' \in 0 .. MaxDays
    BY <1>t, <1>5, CardSmsAssumption DEF Midnight, TypeOK
  <2>2. alerted' \in [Events -> {"no", "driven", "skipped"}]
    BY <1>5 DEF Midnight
  <2>3. TypeOK' /\ UNCHANGED <<ev, tx, pushed, repairRun, pc, task>>
    BY <1>t, <1>5, <2>1, <2>2
       DEF Midnight, TypeOK, eventVars, jobVars, adminVars, fenceVars
  <2> QED
    BY <2>3, QuietInv
<1>6. ASSUME TickRead
      PROVE  Inv'
  <2>1. stalled' \in SUBSET Events /\ checked' \in BOOLEAN
    BY <1>t, <1>6 DEF TickRead, TypeOK
  <2>2. TypeOK' /\ UNCHANGED <<ev, tx, pushed, repairRun, pc, task>>
    BY <1>t, <1>6, <2>1 DEF TickRead, TypeOK, eventVars, jobVars, adminVars, fenceVars
  <2> QED
    BY <2>2, QuietInv
<1> QED
  BY <1>1, <1>2, <1>3, <1>4, <1>5, <1>6

LEMMA FenceInv ==
  ASSUME Inv, SwitchFence \/ PausePoll
  PROVE  Inv'
<1>1. UNCHANGED <<eventVars, pushed, jobVars, adminVars, stallVars>>
  BY DEF SwitchFence, PausePoll, Pause, PauseAgain, PauseDone, Resume
<1>2. fences' \in 0 .. MaxFences
  BY CardSmsAssumption
     DEF Inv, TypeOK, SwitchFence, PausePoll, Pause, PauseAgain, PauseDone, Resume
<1>3. consuming' \in BOOLEAN /\ waiting' \in BOOLEAN /\ paused' \in BOOLEAN
  BY DEF Inv, TypeOK, SwitchFence, PausePoll, Pause, PauseAgain, PauseDone, Resume
<1>4. TypeOK'
  BY <1>1, <1>2, <1>3 DEF Inv, TypeOK, eventVars, jobVars, adminVars, stallVars
<1> QED
  BY <1>1, <1>4, QuietInv DEF eventVars, jobVars

-----------------------------------------------------------------------------
(* Every job, person, timer and fence keeps the invariant.                  *)
LEMMA NextInv == Inv /\ [Next]_vars => Inv'
<1> SUFFICES ASSUME Inv, [Next]_vars PROVE Inv'
  OBVIOUS
<1>1. ASSUME NEW r \in Slots, Job(r)
      PROVE  Inv'
  BY <1>1, StartJobInv, LoadInv, WriteInv DEF Job
<1>2. ASSUME NEW r \in Runners, Promotion(r)
      PROVE  Inv'
  BY <1>2, PrepareInv, CommitInv, NotifyInv, StopInv DEF Promotion
<1>3. CASE People
  BY <1>3, ReviewInv, QuietSteps DEF People
<1>4. CASE Automatic
  BY <1>4, AutoApplyInv, QuietSteps DEF Automatic
<1>5. CASE StallCheck
  BY <1>5, TickVisitInv, QuietSteps DEF StallCheck
<1>6. CASE SwitchFence \/ PausePoll
  BY <1>6, FenceInv
<1>7. CASE UNCHANGED vars
  <2>1. UNCHANGED <<eventVars, pushed, jobVars, adminVars, stallVars, fenceVars>>
    BY <1>7 DEF vars
  <2>2. TypeOK'
    BY <2>1
       DEF Inv, TypeOK, eventVars, jobVars, adminVars, stallVars, fenceVars
  <2> QED
    BY <2>1, <2>2, QuietInv DEF eventVars, jobVars
<1> QED
  BY <1>1, <1>2, <1>3, <1>4, <1>5, <1>6, <1>7 DEF Next

LEMMA AlwaysInv == Spec => []Inv
<1> QED
  BY InitInv, NextInv, PTL DEF Spec

(* For any messages, releases of the parser and runners, the variables keep *)
(* their types: a transaction always comes from a reader, and a runner      *)
(* always works on a message.                                               *)
THEOREM TypeCorrect == Spec => []TypeOK
<1>1. Inv => TypeOK
  BY DEF Inv
<1> QED
  BY <1>1, AlwaysInv, PTL

(* No transaction is ever made from a stale reading of its message, from an *)
(* unconfirmed guess, or for a message that is left unread.                 *)
THEOREM TransactionIsFoundedCorrect == Spec => []TransactionIsFounded
<1>1. Inv => TransactionIsFounded
  BY DEF Inv
<1> QED
  BY <1>1, AlwaysInv, PTL

(* Two messages about one payment never become two unflagged approvals,     *)
(* however many jobs, reviews and recoveries promote them at the same time. *)
THEOREM DuplicateIsFlaggedCorrect == Spec => []DuplicateIsFlagged
<1>1. Inv => DuplicateIsFlagged
  BY DEF Inv
<1> QED
  BY <1>1, AlwaysInv, PTL

(* Only what an ordinary job read is pushed, in spite of crashed repairs.   *)
THEOREM PushOnlyOnArrivalCorrect == Spec => []PushOnlyOnArrival
<1>1. Inv => PushOnlyOnArrival
  BY DEF Inv, PushedSettled, PushOnlyOnArrival
<1> QED
  BY <1>1, AlwaysInv, PTL

(* A settled verdict survives every step: three steps write a verdict, and  *)
(* each of them checks that the row is not settled.                         *)
LEMMA SettledStays ==
  ASSUME Inv, [Next]_vars, NEW e \in Events, ev[e].status \in Settled
  PROVE  ev'[e] = ev[e]
<1>t. TypeOK
  BY DEF Inv
<1>1. CASE \E r \in Slots : Write(r)
  <2>1. PICK r \in Slots : Write(r)
    BY <1>1
  <2>2. Reliance(r) /\ pc[r] = "parse"
    BY <2>1 DEF Write, Inv, RunnersRely, Runners
  <2>3. task[r].seen.verdict.status \notin Settled
    BY <2>2 DEF Reliance
  <2>4. CASE StillAsSeen(task[r].event, task[r].seen)
    <3>1. ev[task[r].event].status \notin Settled
      BY <2>3, <2>4 DEF StillAsSeen, SeenNow
    <3>2. \E verdict : Store(task[r].event, verdict)
      BY <2>1, <2>4 DEF Write
    <3> QED
      BY <1>t, <3>1, <3>2 DEF Store, TypeOK
  <2>5. CASE ~StillAsSeen(task[r].event, task[r].seen)
    BY <2>1, <2>5 DEF Write
  <2> QED
    BY <2>4, <2>5
<1>2. CASE \E f \in Events, type \in Types \ {"none"}, reuse \in BOOLEAN :
             Review(f, type, reuse)
  BY <1>t, <1>2 DEF Review, Store, Unread, Settled, Confirmed, TypeOK
<1>3. CASE AutoApply
  BY <1>t, <1>3
     DEF AutoApply, AutoAllowed, Store, Unread, Settled, Confirmed, TypeOK, eventVars
<1>4. CASE \E r \in Slots : Load(r) \/ \E f \in Events, b \in BOOLEAN : StartJob(r, f, b)
  BY <1>4 DEF Load, StartJob, eventVars
<1>5. CASE \E r \in Runners : Promotion(r)
  BY <1>5 DEF Promotion, Prepare, Commit, Rejected, Notify, Crash, eventVars
<1>6. CASE \/ Deploy \/ StallCheck
           \/ \E f \in Events : PlanRepair(f) \/ AutoScan(f)
  BY <1>6 DEF Deploy, StallCheck, PlanRepair, AutoScan, Elapse, TickVisit,
              Midnight, TickRead, eventVars
<1>7. CASE SwitchFence \/ PausePoll
  BY <1>7 DEF SwitchFence, PausePoll, Pause, PauseAgain, PauseDone, Resume, eventVars
<1>8. CASE UNCHANGED vars
  BY <1>8 DEF vars, eventVars
<1> QED
  BY <1>1, <1>2, <1>3, <1>4, <1>5, <1>6, <1>7, <1>8 DEF Next, Job, People, Automatic

THEOREM VerdictIsFinalCorrect == Spec => VerdictIsFinal
<1>1. Inv /\ [Next]_vars =>
        [\A e \in Events :
           ev[e].status \in Confirmed \cup {"ignored"} => ev'[e] = ev[e]]_vars
  BY SettledStays DEF Settled
<1> QED
  BY <1>1, AlwaysInv, PTL DEF Spec, VerdictIsFinal

=============================================================================
