------------------------------- MODULE CardSms -------------------------------
(***************************************************************************)
(* From a stored card message to a transaction.  Queue jobs parse messages *)
(* and promote the purchases they read, the minute scheduler drives stalled*)
(* promotions, a person confirms what the parser could not read, automatic *)
(* recovery applies an approved recipe, an operator repairs messages after *)
(* a parser change, and a fence pauses the promotions                      *)
(* (card-sms-parse.processor.ts, transaction-promotion.service.ts,         *)
(* notification-scheduler.service.ts, card-sms-review.service.ts,          *)
(* automatic-recovery.service.ts, money-runtime.service.ts).               *)
(*                                                                         *)
(* A promotion transaction is one step: it is serializable, and what it    *)
(* does not lock is protected by the unique source event.                  *)
(***************************************************************************)
EXTENDS Naturals

CONSTANTS
  Events,     \* ids of card_sms_events rows
  Slots,      \* jobs the workers process at a time
  Scheduler,  \* the notification scheduler of a worker
  Reading,    \* Reading[v][e]: what version v of the rule parser reads
  Twins,      \* pairs of messages about one payment on one card
  Unlinked,   \* messages whose card cannot be told
  Layout,     \* messages of one layout, which one recipe reads
  Nothing,    \* no transaction, plan, policy or event
  MaxRuns,    \* bound: deliveries and retries of an event's jobs
  MaxFences,  \* bound: times an operator sets or removes the pause key
  MaxDays,    \* bound: midnights
  Lookback    \* PROMOTION_STALL_LOOKBACK_DAYS

Types == {"none", "approval", "cancellation", "declined"}
Purchases == {"approval", "cancellation"}
Sources == {"none", "rule", "guess", "repair", "policy", "person"}
Statuses == {"pending", "parsed", "pending_review", "parse_failed",
             "quarantined", "ignored"}
Confirmed == {"parsed", "pending_review"}
Unread == {"parse_failed", "quarantined"}
Readings == {"approval", "unsure", "cancellation", "declined", "notice",
             "unclear", "suspicious"}
Runners == Slots \cup {Scheduler}

Verdict == [status: Statuses, type: Types, by: Sources]
Transaction == [type: Purchases, by: Sources \ {"none"},
                flag: {"none", "pending_review", "duplicate_suspected"}]
Snapshot == [verdict: Verdict, changes: Nat]
Plan == [changes: Nat, reading: Readings]
Task == [event: Events, repair: BOOLEAN, seen: Snapshot,
         duplicate: BOOLEAN]
Candidate == [event: Events, changes: Nat,
              policy: Events \cup {Nothing}]

ASSUME CardSmsAssumption ==
  /\ Scheduler \notin Slots
  /\ \A v \in DOMAIN Reading : Reading[v] \in [Events -> Readings]
  /\ 1 \in DOMAIN Reading /\ DOMAIN Reading \subseteq Nat
  /\ \A t \in Twins : /\ t \in Events \X Events /\ t[1] # t[2]
                      /\ <<t[2], t[1]>> \in Twins
  /\ Unlinked \subseteq Events /\ Layout \subseteq Events
  /\ Nothing \notin Events \cup Transaction \cup Plan \cup Task \cup Candidate
  /\ MaxRuns \in Nat /\ MaxFences \in Nat /\ MaxDays \in Nat
  /\ Lookback \in Nat

VARIABLES
  ev,         \* verdict stored in an event row
  changes,    \* its updatedAt, as a count of writes
  tx,         \* the transaction made from an event
  pushed,     \* events with a notification job
  repairRun,  \* events with a pipeline run of a repair job
  runs,       \* job runs started for an event
  pc,         \* next step of a runner
  task,       \* what a runner works on
  plan,       \* repair planned for an event
  parser,     \* deployed version of the rule parser
  policy,     \* message whose review approved the recipe of Layout
  candidate,  \* row the automatic recovery has scanned
  age,        \* 0 fresh, then days an unpromoted event has stalled
  alerted,    \* today's stall alert of an event and what followed it
  stalled,    \* events the current stall check still has to visit
  checked,    \* today's stall check has come to its end once
  days,       \* midnights so far
  fences,     \* changes of the pause key in Redis: it is set when odd
  consuming,  \* the queue hands out jobs
  waiting,    \* a pause() call waits for the jobs that run
  paused      \* MoneyRuntimeService.isPromotionPaused

eventVars == <<ev, changes, tx>>
stallVars == <<age, alerted, stalled, checked, days>>
fenceVars == <<fences, consuming, waiting, paused>>
adminVars == <<plan, parser, policy, candidate>>
jobVars == <<runs, repairRun, pc, task>>
vars == <<eventVars, pushed, jobVars, adminVars, stallVars, fenceVars>>

TypeOK ==
  /\ ev \in [Events -> Verdict]
  /\ changes \in [Events -> Nat]
  /\ tx \in [Events -> Transaction \cup {Nothing}]
  /\ pushed \subseteq Events /\ repairRun \subseteq Events
  /\ runs \in [Events -> 0 .. MaxRuns]
  /\ pc \in [Runners -> {"idle", "load", "parse", "promote", "commit",
                             "notify"}]
  /\ task \in [Runners -> Task \cup {Nothing}]
  /\ plan \in [Events -> Plan \cup {Nothing}]
  /\ parser \in DOMAIN Reading
  /\ policy \in Events \cup {Nothing}
  /\ candidate \in Candidate \cup {Nothing}
  /\ age \in [Events -> 0 .. Lookback + 1]
  /\ alerted \in [Events -> {"no", "driven", "skipped"}]
  /\ stalled \subseteq Events /\ days \in 0 .. MaxDays
  /\ fences \in 0 .. MaxFences
  /\ checked \in BOOLEAN /\ consuming \in BOOLEAN
  /\ waiting \in BOOLEAN /\ paused \in BOOLEAN

Init ==
  /\ ev = [e \in Events |->
             [status |-> "pending", type |-> "none", by |-> "none"]]
  /\ changes = [e \in Events |-> 0]
  /\ tx = [e \in Events |-> Nothing]
  /\ pushed = {} /\ repairRun = {}
  /\ runs = [e \in Events |-> 0]
  /\ pc = [r \in Runners |-> "idle"]
  /\ task = [r \in Runners |-> Nothing]
  /\ plan = [e \in Events |-> Nothing]
  /\ parser = 1 /\ policy = Nothing /\ candidate = Nothing
  /\ age = [e \in Events |-> 0]
  /\ alerted = [e \in Events |-> "no"]
  /\ stalled = {} /\ checked = FALSE /\ days = 0
  /\ fences = 0 /\ consuming = TRUE /\ waiting = FALSE /\ paused = FALSE

Goto(r, label) == pc' = [pc EXCEPT ![r] = label]
End(r) == Goto(r, "idle") /\ task' = [task EXCEPT ![r] = Nothing]
Store(e, verdict) ==
  /\ ev' = [ev EXCEPT ![e] = verdict]
  /\ changes' = [changes EXCEPT ![e] = @ + 1]

Purchase(verdict) == verdict.status \in Confirmed /\ verdict.type \in Purchases
SeenNow(e) == [verdict |-> ev[e], changes |-> changes[e]]
Reads(e) == Reading[parser][e]
NewTask(e, repair) ==
  [event |-> e, repair |-> repair, seen |-> SeenNow(e), duplicate |-> FALSE]

-----------------------------------------------------------------------------
(* A queue job: parse, write, promote. *)

(* A delivery of the event's job, or of the repair job of its plan; the     *)
(* pipeline run of the job is recorded before it runs.                      *)
StartJob(r, e, repair) ==
  /\ pc[r] = "idle" /\ consuming /\ runs[e] < MaxRuns
  /\ repair => plan[e] # Nothing
  /\ runs' = [runs EXCEPT ![e] = @ + 1]
  /\ repairRun' = IF repair THEN repairRun \cup {e} ELSE repairRun
  /\ task' = [task EXCEPT ![r] = NewTask(e, repair)]
  /\ Goto(r, "load")
  /\ UNCHANGED <<eventVars, pushed, adminVars, stallVars, fenceVars>>

(* assertCardSmsRepairGuard: the row and what the parser reads in it are    *)
(* those of the plan.                                                       *)
GuardHolds(e) ==
  /\ ev[e].status = "parse_failed"
  /\ plan[e] = [changes |-> changes[e], reading |-> Reads(e)]

AfterLoad(e, repair) ==
  CASE tx[e] # Nothing -> "idle"
    [] tx[e] = Nothing /\ repair -> IF GuardHolds(e) THEN "parse" ELSE "idle"
    [] tx[e] = Nothing /\ ~repair ->
         IF Purchase(ev[e]) THEN "promote"
         ELSE IF ev[e].status \in Confirmed \cup {"ignored"} THEN "idle"
         ELSE "parse"

Load(r) ==
  /\ pc[r] = "load"
  /\ LET e == task[r].event
         next == AfterLoad(e, task[r].repair)
     IN IF next = "idle" THEN End(r)
        ELSE /\ Goto(r, next)
             /\ task' = [task EXCEPT ![r].seen = SeenNow(e)]
  /\ UNCHANGED <<eventVars, pushed, runs, repairRun, adminVars, stallVars,
                 fenceVars>>

(* resolveCardSmsParseDisposition, and the quarantine of suspicious texts   *)
(* and of what a recipe or the language model read.                         *)
Dispositions(e, by) ==
  LET read(status, type) == {[status |-> status, type |-> type, by |-> by]}
  IN CASE Reads(e) = "approval" -> read("parsed", "approval")
       [] Reads(e) = "unsure" -> read("pending_review", "approval")
       [] Reads(e) = "cancellation" -> read("parsed", "cancellation")
       [] Reads(e) = "declined" -> read("parsed", "declined")
       [] Reads(e) = "notice" -> read("ignored", "none")
       [] Reads(e) = "suspicious" -> read("quarantined", "approval")
       [] Reads(e) = "unclear" ->
            read("parse_failed", "none")
            \cup [status: {"quarantined"}, type: Purchases, by: {"guess"}]

(* The write takes effect only on the row that was read, without a          *)
(* transaction.                                                             *)
StillUnpromoted(e, seen) == tx[e] = Nothing  \* mutant
StillAsSeen(e, seen) == seen = SeenNow(e) /\ tx[e] = Nothing

Write(r) ==
  /\ pc[r] = "parse"
  /\ LET e == task[r].event
         by == IF task[r].repair THEN "repair" ELSE "rule"
     IN \/ /\ StillAsSeen(e, task[r].seen)
           /\ \E verdict \in Dispositions(e, by) :
                /\ Store(e, verdict)
                /\ IF Purchase(verdict)
                   THEN Goto(r, "promote") /\ UNCHANGED task
                   ELSE End(r)
        \/ /\ ~StillAsSeen(e, task[r].seen)
           /\ End(r)
           /\ UNCHANGED <<ev, changes>>
  /\ UNCHANGED <<tx, pushed, runs, repairRun, adminVars, stallVars, fenceVars>>

-----------------------------------------------------------------------------
(* Promotion, called by the job or by the scheduler. *)

DuplicateApproval(e) ==
  \E t \in Twins : t[1] = e /\ tx[t[2]] # Nothing /\ tx[t[2]].type = "approval"

PrepareForgets(r) ==   \* mutant: a past repair is not looked up
  /\ pc[r] = "promote"
  /\ LET e == task[r].event
     IN IF Purchase(ev[e]) /\ tx[e] = Nothing
        THEN /\ task' = [task EXCEPT ![r].seen = SeenNow(e)]
             /\ Goto(r, "commit")
        ELSE End(r)
  /\ UNCHANGED <<eventVars, pushed, runs, repairRun, adminVars, stallVars,
                 fenceVars>>

(* What is read before the transaction: the event, whether it is promoted,  *)
(* whether a repair has ever run on it, and a first duplicate check.        *)
Prepare(r) ==
  /\ pc[r] = "promote"
  /\ LET e == task[r].event
     IN IF Purchase(ev[e]) /\ tx[e] = Nothing
        THEN /\ task' = [task EXCEPT ![r] =
                  [event |-> e, repair |-> @.repair \/ e \in repairRun,
                   seen |-> SeenNow(e), duplicate |-> DuplicateApproval(e)]]
             /\ Goto(r, "commit")
        ELSE End(r)
  /\ UNCHANGED <<eventVars, pushed, runs, repairRun, adminVars, stallVars,
                 fenceVars>>

FlagAsPrepared(t) ==   \* mutant: the first duplicate check is not repeated
  IF t.seen.verdict.type = "cancellation" THEN "none"
  ELSE IF t.event \in Unlinked THEN "pending_review"
  ELSE IF t.duplicate THEN "duplicate_suspected" ELSE "none"

FlagFor(t) ==
  IF t.seen.verdict.type = "cancellation" THEN "none"
  ELSE IF t.event \in Unlinked THEN "pending_review"
  ELSE IF DuplicateApproval(t.event) THEN "duplicate_suspected" ELSE "none"

(* The serializable transaction. *)
Commit(r) ==
  /\ pc[r] = "commit"
  /\ LET e == task[r].event
         verdict == task[r].seen.verdict
     IN IF tx[e] # Nothing THEN End(r) /\ UNCHANGED tx
        ELSE /\ tx' = [tx EXCEPT ![e] =
                  [type |-> verdict.type, by |-> verdict.by,
                   flag |-> FlagFor(task[r])]]
             /\ IF task[r].repair THEN End(r)
                ELSE Goto(r, "notify") /\ UNCHANGED task
  /\ UNCHANGED <<ev, changes, pushed, runs, repairRun, adminVars, stallVars,
                 fenceVars>>

(* The money domain rejects the purchase, or Postgres the transaction: the  *)
(* job is delivered again, the scheduler goes on with its list.             *)
Rejected(r) ==
  /\ pc[r] = "commit"
  /\ End(r)
  /\ UNCHANGED <<eventVars, pushed, runs, repairRun, adminVars, stallVars,
                 fenceVars>>

(* The push job, after the commit; its loss is only logged. *)
Notify(r) ==
  /\ pc[r] = "notify"
  /\ pushed' \in {pushed, pushed \cup {task[r].event}}
  /\ End(r)
  /\ UNCHANGED <<eventVars, runs, repairRun, adminVars, stallVars, fenceVars>>

(* The worker dies: the queue delivers the job again, the stall check is    *)
(* started over.                                                            *)
Crash(r) ==
  /\ pc[r] # "idle"
  /\ End(r)
  /\ stalled' = IF r = Scheduler THEN {} ELSE stalled
  /\ UNCHANGED <<eventVars, pushed, runs, repairRun, adminVars, age, alerted,
                 checked, days, fenceVars>>

-----------------------------------------------------------------------------
(* People and the automatic recovery. *)

ReviewAnyStatus(e, type, reuse) ==   \* mutant: no look at the status
  /\ tx[e] = Nothing
  /\ reuse => type = "approval" /\ e \in Layout
  /\ Store(e, [status |-> "parsed", type |-> type, by |-> "person"])
  /\ tx' = IF type = "declined" THEN tx
           ELSE [tx EXCEPT ![e] =
                   [type |-> type, by |-> "person", flag |-> "none"]]
  /\ policy' = IF reuse THEN e ELSE policy
  /\ UNCHANGED <<pushed, jobVars, plan, parser, candidate, stallVars, fenceVars>>

(* A person confirms what a message says; `reuse' approves the recipe of    *)
(* its layout.                                                              *)
Review(e, type, reuse) ==
  /\ ev[e].status \in Unread /\ tx[e] = Nothing
  /\ reuse => type = "approval" /\ e \in Layout
  /\ Store(e, [status |-> "parsed", type |-> type, by |-> "person"])
  /\ tx' = IF type = "declined" THEN tx
           ELSE [tx EXCEPT ![e] =
                   [type |-> type, by |-> "person", flag |-> "none"]]
  /\ policy' = IF reuse THEN e ELSE policy
  /\ UNCHANGED <<pushed, jobVars, plan, parser, candidate, stallVars, fenceVars>>

(* AutomaticRecoveryService.scan: a row and the policy of its layout, with  *)
(* the versions promoteAutomatic is to find.                                *)
AutoScan(e) ==
  /\ candidate = Nothing
  /\ e \in Layout /\ policy # Nothing
  /\ ev[e].status \in Unread /\ tx[e] = Nothing
  /\ candidate' = [event |-> e, changes |-> changes[e], policy |-> policy]
  /\ UNCHANGED <<eventVars, pushed, jobVars, plan, parser, policy, stallVars,
                 fenceVars>>

AutoAllowed(c) ==
  /\ ~paused
  /\ ev[c.event].status \in Unread /\ changes[c.event] = c.changes
  /\ tx[c.event] = Nothing
  /\ policy = c.policy /\ ev[c.policy].status = "parsed"
  /\ c.event \notin Unlinked /\ ~DuplicateApproval(c.event)

AutoApply ==
  /\ candidate # Nothing
  /\ candidate' = Nothing
  /\ LET e == candidate.event
     IN \/ /\ AutoAllowed(candidate)
           /\ Store(e, [status |-> "parsed", type |-> "approval",
                        by |-> "policy"])
           /\ tx' = [tx EXCEPT ![e] =
                [type |-> "approval", by |-> "policy", flag |-> "none"]]
        \/ ~AutoAllowed(candidate) /\ UNCHANGED eventVars
  /\ UNCHANGED <<pushed, jobVars, plan, parser, policy, stallVars, fenceVars>>

(* The repair script plans the failed messages that the parser now reads    *)
(* with certainty; it ignores that a text is suspicious.                    *)
Certain == {"approval", "cancellation", "declined", "notice", "suspicious"}
PlanRepair(e) ==
  /\ ev[e].status = "parse_failed" /\ Reads(e) \in Certain
  /\ plan' = [plan EXCEPT ![e] = [changes |-> changes[e], reading |-> Reads(e)]]
  /\ UNCHANGED <<eventVars, pushed, jobVars, parser, policy, candidate,
                 stallVars, fenceVars>>

(* A release of the workers and of the repair script. *)
Deploy ==
  /\ \A r \in Runners : pc[r] = "idle"
  /\ parser + 1 \in DOMAIN Reading
  /\ parser' = parser + 1
  /\ UNCHANGED <<eventVars, pushed, jobVars, plan, policy, candidate, stallVars,
                 fenceVars>>

-----------------------------------------------------------------------------
(* The check for stalled promotions (runPromotionStallCheck). *)

Unpromoted(e) == Purchase(ev[e]) /\ tx[e] = Nothing

(* PROMOTION_STALL_MINUTES have passed since the message was parsed. *)
Elapse(e) ==
  /\ age[e] = 0 /\ Unpromoted(e)
  /\ age' = [age EXCEPT ![e] = 1]
  /\ UNCHANGED <<eventVars, pushed, jobVars, adminVars, alerted, stalled,
                 checked, days, fenceVars>>

(* Midnight: no stall check spans it, and none of the days passes without a *)
(* check that comes to its end.                                             *)
Midnight ==
  /\ checked /\ stalled = {} /\ pc[Scheduler] = "idle" /\ days < MaxDays
  /\ days' = days + 1 /\ checked' = FALSE
  /\ alerted' = [e \in Events |-> "no"]
  /\ age' = [e \in Events |->
               IF age[e] \in 1 .. Lookback THEN age[e] + 1 ELSE age[e]]
  /\ UNCHANGED <<eventVars, pushed, jobVars, adminVars, stalled, fenceVars>>

TickReadParsed ==   \* mutant: pending_review is left out
  /\ pc[Scheduler] = "idle" /\ stalled = {}
  /\ stalled' = {e \in Events : /\ Unpromoted(e) /\ ev[e].status = "parsed"
                               /\ age[e] \in 1 .. Lookback}
  /\ checked' = (checked \/ stalled' = {})
  /\ UNCHANGED <<eventVars, pushed, jobVars, adminVars, age, alerted, days,
                 fenceVars>>

TickRead ==
  /\ pc[Scheduler] = "idle" /\ stalled = {}
  /\ stalled' = {e \in Events : Unpromoted(e) /\ age[e] \in 1 .. Lookback}
  /\ checked' = (checked \/ stalled' = {})
  /\ UNCHANGED <<eventVars, pushed, jobVars, adminVars, age, alerted, days,
                 fenceVars>>

(* One event of the list: the alert, whose key holds the day, then the      *)
(* promotion unless the alert was there or promotions are paused.           *)
TickVisit(e) ==
  /\ pc[Scheduler] = "idle" /\ e \in stalled
  /\ stalled' = stalled \ {e}
  /\ checked' = (checked \/ stalled' = {})
  /\ LET drive == alerted[e] = "no" /\ ~paused
     IN /\ alerted' = IF alerted[e] # "no" THEN alerted
                      ELSE [alerted EXCEPT ![e] =
                              IF drive THEN "driven" ELSE "skipped"]
        /\ IF drive
           THEN /\ task' = [task EXCEPT ![Scheduler] = NewTask(e, FALSE)]
                /\ Goto(Scheduler, "promote")
           ELSE UNCHANGED <<pc, task>>
  /\ UNCHANGED <<eventVars, pushed, runs, repairRun, adminVars, age, days,
                 fenceVars>>

-----------------------------------------------------------------------------
(* The fence around the change of the money contract. *)

Fenced == fences % 2 = 1

SwitchFence ==
  /\ fences < MaxFences
  /\ fences' = fences + 1
  /\ UNCHANGED <<eventVars, pushed, jobVars, adminVars, stallVars, consuming,
                 waiting, paused>>

(* syncPauseState polls the key.  pause() stops the deliveries and waits    *)
(* for the jobs that run; only then the pause is applied.                   *)
Pause ==
  /\ Fenced /\ ~paused /\ consuming
  /\ consuming' = FALSE /\ waiting' = TRUE
  /\ UNCHANGED <<eventVars, pushed, jobVars, adminVars, stallVars, fences,
                 paused>>

(* A poll while pause() still waits: BullMQ's pause() of a paused worker    *)
(* returns at once.                                                         *)
PauseAgain ==
  /\ Fenced /\ ~paused /\ ~consuming
  /\ paused' = TRUE
  /\ UNCHANGED <<eventVars, pushed, jobVars, adminVars, stallVars, fences,
                 consuming, waiting>>

PauseDoneIfFenced ==   \* mutant: only if the key is still set
  /\ waiting /\ \A r \in Slots : pc[r] = "idle"
  /\ waiting' = FALSE /\ paused' = Fenced
  /\ UNCHANGED <<eventVars, pushed, jobVars, adminVars, stallVars, fences,
                 consuming>>

PauseDone ==
  /\ waiting /\ \A r \in Slots : pc[r] = "idle"
  /\ waiting' = FALSE /\ paused' = TRUE
  /\ UNCHANGED <<eventVars, pushed, jobVars, adminVars, stallVars, fences,
                 consuming>>

Resume ==
  /\ ~Fenced /\ paused
  /\ consuming' = TRUE /\ paused' = FALSE
  /\ UNCHANGED <<eventVars, pushed, jobVars, adminVars, stallVars, fences,
                 waiting>>

-----------------------------------------------------------------------------
Job(r) ==
  \/ \E e \in Events, repair \in BOOLEAN : StartJob(r, e, repair)
  \/ Load(r) \/ Write(r)

Promotion(r) ==
  Prepare(r) \/ Commit(r) \/ Rejected(r) \/ Notify(r) \/ Crash(r)

People ==
  \/ \E e \in Events, type \in Types \ {"none"}, reuse \in BOOLEAN :
       Review(e, type, reuse)
  \/ \E e \in Events : PlanRepair(e)
  \/ Deploy

Automatic == AutoApply \/ \E e \in Events : AutoScan(e)

StallCheck ==
  \/ \E e \in Events : Elapse(e) \/ TickVisit(e)
  \/ Midnight \/ TickRead

PausePoll == Pause \/ PauseAgain \/ PauseDone \/ Resume

Next ==
  \/ \E r \in Slots : Job(r)
  \/ \E r \in Runners : Promotion(r)
  \/ People \/ Automatic \/ StallCheck
  \/ SwitchFence \/ PausePoll

Spec == Init /\ [][Next]_vars

(* Timers fire, minutes pass, and a promotion the scheduler began goes on.  *)
FairSpec ==
  /\ Spec
  /\ \A e \in Events : WF_vars(Elapse(e)) /\ WF_vars(TickVisit(e))
  /\ WF_vars(TickRead) /\ WF_vars(Resume) /\ WF_vars(PauseDone)
  /\ \A r \in Runners :
       WF_vars(Load(r) \/ Write(r) \/ Promotion(r))

-----------------------------------------------------------------------------
(* What was read with confidence, or confirmed by a person, is never        *)
(* rewritten: a redelivered or slow job, a repair, a review and the         *)
(* automatic recovery leave a verdict alone once it is parsed,              *)
(* pending_review or ignored.                                               *)
VerdictIsFinal ==
  [][\A e \in Events :
       ev[e].status \in Confirmed \cup {"ignored"} => ev'[e] = ev[e]]_vars

(* A transaction says what its message says and comes from the same reader: *)
(* no transaction is made from a stale reading of the message, from a guess *)
(* nobody confirmed, or for a message left unread.                          *)
TransactionIsFounded ==
  \A e \in Events :
    tx[e] # Nothing =>
      /\ Purchase(ev[e])
      /\ ev[e].type = tx[e].type /\ ev[e].by = tx[e].by
      /\ ev[e].by # "guess"

(* Of two messages about one payment, whoever promotes them and in whatever *)
(* order, at most one becomes an approval without a flag, unless a person   *)
(* confirmed one of them.                                                   *)
DuplicateIsFlagged ==
  \A t \in Twins :
    LET unflagged(e) ==
          /\ tx[e] # Nothing /\ tx[e].type = "approval"
          /\ tx[e].by # "person" /\ tx[e].flag = "none"
    IN ~(unflagged(t[1]) /\ unflagged(t[2]))

(* Only a message that an ordinary job read is pushed to a phone: a repair  *)
(* of an old message never is, even when the repair job dies before it      *)
(* promotes and an ordinary job or the scheduler does it.                   *)
PushOnlyOnArrival == \A e \in pushed : ev[e].by = "rule"

(* A purchase that has just been read is, in the end, promoted or reported  *)
(* by an operational alert, before it is too old for the stall check.       *)
StalledIsSeen ==
  \A e \in Events :
    (Unpromoted(e) /\ age[e] = 0) ~> (tx[e] # Nothing \/ alerted[e] # "no")

(* When the fence is lifted for good, the queue delivers again and the      *)
(* promotions are no longer paused, whatever the polls did in between.      *)
FenceLiftsForGood ==
  (fences = MaxFences /\ ~Fenced) ~> [](consuming /\ ~paused)
=============================================================================
