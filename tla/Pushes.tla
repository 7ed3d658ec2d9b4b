------------------------------- MODULE Pushes -------------------------------
(***************************************************************************)
(* The pushes that follow a promotion: the transaction's own and, when a   *)
(* budget crosses a threshold, the budget's.  Promotions run side by side; *)
(* each one commits its transaction, queues a job and looks at the budget  *)
(* in steps that another promotion, or a crash, may separate.  One worker  *)
(* takes the jobs and sends to every device of every recipient.            *)
(***************************************************************************)
EXTENDS Integers, FiniteSets, FiniteSetsExt

CONSTANTS
  Promotions,    \* approvals being promoted, one transaction each
  Share,         \* per cent of the budget each of them spends
  Thresholds,    \* BUDGET_ALERT_THRESHOLDS
  Devices,       \* rows of push_subscriptions
  Attempts,      \* QUEUE_DEFAULT_JOB_OPTIONS.attempts
  None,
  MaxFaults      \* bound: crashes, lost answers, failed writes and adds

Jobs == Promotions \cup Thresholds

ASSUME PushAssumption ==
  /\ Share \in [Promotions -> Nat] /\ Thresholds \subseteq Nat \ {0} /\ Thresholds # {}
  /\ IsFiniteSet(Promotions) /\ IsFiniteSet(Thresholds) /\ IsFiniteSet(Devices)
  /\ Promotions \cap Thresholds = {} /\ None \notin Jobs
  /\ Attempts \in Nat \ {0} /\ MaxFaults \in Nat

VARIABLES
  spent,     \* promotions whose transaction is committed
  check,     \* where each promotion is, thresholds left to try, the one to announce
  marked,    \* thresholds with a row in budget_alert_state
  job,       \* state, failed attempts and sentTokenIds of each job
  run,       \* the attempt in flight: its job, devices left, devices sent, retry
  faults,
  queued,    \* history: how often each job was added
  pushed,    \* history: the devices each job has reached, without the pushes a fault hid
  owed       \* history: devices of this attempt whose answer asked for a retry

vars == <<spent, check, marked, job, run, faults, queued, pushed, owed>>
promotionVars == <<spent, check, marked>>
historyVars == <<pushed, owed>>

Idle == [job |-> None, to |-> {}, new |-> {}, retry |-> FALSE]

Init ==
  /\ spent = {} /\ marked = {}
  /\ check = [p \in Promotions |-> [pc |-> "commit", left |-> {}, send |-> None]]
  /\ job = [j \in Jobs |-> [state |-> "none", tries |-> 0, sent |-> {}]]
  /\ run = Idle
  /\ faults = 0
  /\ queued = [j \in Jobs |-> 0]
  /\ pushed = [j \in Jobs |-> {}]
  /\ owed = {}

Fault == faults < MaxFaults /\ faults' = faults + 1

-----------------------------------------------------------------------------
(* notificationQueue.add: ignored while a job of that id is remembered; a  *)
(* completed one is removed.                                               *)
Add(j) ==
  /\ queued' = [queued EXCEPT ![j] = @ + 1]
  /\ IF job[j].state \in {"none", "completed"}
     THEN job' = [job EXCEPT ![j] = [state |-> "waiting", tries |-> 0, sent |-> {}]]
     ELSE UNCHANGED job
AddOrLose(j) ==
  \/ Add(j) /\ UNCHANGED faults
  \/ Fault /\ UNCHANGED <<job, queued>>

At(p, step) == check[p].pc = step
Goto(p, step) == check' = [check EXCEPT ![p].pc = step]
Rest == [pc |-> "done", left |-> {}, send |-> None]
End(p) == check' = [check EXCEPT ![p] = Rest]

Commit(p) ==
  /\ At(p, "commit")
  /\ spent' = spent \cup {p}
  /\ Goto(p, "notify")
  /\ UNCHANGED <<marked, job, run, faults, queued, historyVars>>

(* enqueueNotification: a failure to add is only logged.                   *)
Notify(p) ==
  /\ At(p, "notify") /\ AddOrLose(p) /\ Goto(p, "read")
  /\ UNCHANGED <<spent, marked, run, historyVars>>

Usage == MapThenSumSet(LAMBDA p : Share[p], spent)
Crossed == {t \in Thresholds : Usage >= t}

(* checkBudgetAlerts: the usage is read once, ...                          *)
ReadUsageBefore(p) ==   \* mutant: the usage as it was before this transaction
  /\ At(p, "read")
  /\ LET over == {t \in Thresholds : Usage - Share[p] >= t}
     IN IF over = {} THEN End(p)
        ELSE check' = [check EXCEPT ![p] = [pc |-> "mark", left |-> over, send |-> None]]
  /\ UNCHANGED <<spent, marked, job, run, faults, queued, historyVars>>
ReadUsage(p) ==
  /\ At(p, "read")
  /\ IF Crossed = {} THEN End(p)
     ELSE check' = [check EXCEPT ![p] = [pc |-> "mark", left |-> Crossed, send |-> None]]
  /\ UNCHANGED <<spent, marked, job, run, faults, queued, historyVars>>

(* ... each threshold is marked by an insert of its own, highest first; the *)
(* highest one this promotion marked is announced, ...                     *)
MarkUnchecked(p) ==   \* mutant: announces what it meets, marked before or not
  /\ At(p, "mark")
  /\ marked' = marked \cup check[p].left
  /\ check' = [check EXCEPT ![p] = [pc |-> "announce", left |-> {}, send |-> Max(@.left)]]
  /\ UNCHANGED <<spent, job, run, faults, queued, historyVars>>
Mark(p) ==
  /\ At(p, "mark")
  /\ LET t == Max(check[p].left)
         rest == check[p].left \ {t}
         send == IF check[p].send = None /\ t \notin marked THEN t ELSE check[p].send
     IN /\ marked' = marked \cup {t}
        /\ IF rest = {} /\ send = None THEN End(p)
           ELSE check' = [check EXCEPT ![p] =
                           [pc |-> IF rest = {} THEN "announce" ELSE "mark",
                            left |-> rest, send |-> send]]
  /\ UNCHANGED <<spent, job, run, faults, queued, historyVars>>

(* ... and a failure to add it is only logged.                             *)
Announce(p) ==
  /\ At(p, "announce") /\ AddOrLose(check[p].send) /\ End(p)
  /\ UNCHANGED <<spent, marked, run, historyVars>>

(* A crash after the commit; the retry finds the transaction and stops.    *)
PromotionCrash(p) ==
  /\ check[p].pc \notin {"commit", "done"} /\ Fault
  /\ End(p)
  /\ UNCHANGED <<spent, marked, job, run, queued, historyVars>>

-----------------------------------------------------------------------------
(* Each attempt reads anew who may hear of it (visibility, members), who   *)
(* wants to (preferences, quiet hours) and with which devices: any set may *)
(* be the answer.  The devices the job remembers are left out.             *)
Recipients == SUBSET Devices
StartAnew(j) ==   \* mutant: forgets whom the job reached before
  /\ run = Idle /\ job[j].state = "waiting"
  /\ \E ds \in Recipients :
       run' = [job |-> j, to |-> ds, new |-> {}, retry |-> FALSE]
  /\ job' = [job EXCEPT ![j].state = "active"]
  /\ UNCHANGED <<promotionVars, faults, queued, historyVars>>
Start(j) ==
  /\ run = Idle /\ job[j].state = "waiting"
  /\ \E ds \in Recipients :
       run' = [job |-> j, to |-> ds \ job[j].sent, new |-> {}, retry |-> FALSE]
  /\ job' = [job EXCEPT ![j].state = "active"]
  /\ UNCHANGED <<promotionVars, faults, queued, historyVars>>

(* FcmService.send and what process does with its answer.                  *)
Accepted(d) ==
  /\ pushed' = [pushed EXCEPT ![run.job] = @ \cup {d}]
  /\ run' = [run EXCEPT !.to = @ \ {d}, !.new = @ \cup {d}]
  /\ UNCHANGED <<faults, owed>>
RefusedLast(d) ==   \* mutant: the last answer decides whether to try again
  /\ run' = [run EXCEPT !.to = @ \ {d}, !.retry = FALSE]
  /\ UNCHANGED <<faults, pushed, owed>>
Refused(d) ==       \* UNREGISTERED, or an error that a retry would meet again
  /\ run' = [run EXCEPT !.to = @ \ {d}]
  /\ UNCHANGED <<faults, pushed, owed>>
Unavailable(d) ==   \* 429, 5xx, no access token, a timeout, delivered or not
  /\ run' = [run EXCEPT !.to = @ \ {d}, !.retry = TRUE]
  /\ owed' = owed \cup {d}
  /\ UNCHANGED <<faults, pushed>>
Unrecorded(d) ==    \* the same, and recordFailure throws before retry is set
  /\ Fault
  /\ run' = [run EXCEPT !.to = @ \ {d}]
  /\ UNCHANGED <<pushed, owed>>

Send(d) ==
  /\ d \in run.to
  /\ Accepted(d) \/ Refused(d) \/ Unavailable(d) \/ Unrecorded(d)
  /\ UNCHANGED <<promotionVars, job, queued>>

(* job.updateData, then the end of the attempt: a job that is done is      *)
(* removed, after an error BullMQ tries again until the attempts are used  *)
(* up.                                                                     *)
EndedOrAgain(row, retry) ==   \* mutant: an error is tried again for ever
  [row EXCEPT !.state = IF retry THEN "waiting" ELSE "completed"]
Ended(row, retry) ==
  IF ~retry THEN [state |-> "completed", tries |-> 0, sent |-> {}]
  ELSE [row EXCEPT !.state = IF row.tries + 1 < Attempts THEN "waiting" ELSE "failed",
                   !.tries = @ + 1]
Saved(row) == [row EXCEPT !.sent = @ \cup run.new]
Hidden == pushed' = [pushed EXCEPT ![run.job] = @ \ run.new]
Finish ==
  /\ run # Idle /\ run.to = {}
  /\ \/ /\ job' = [job EXCEPT ![run.job] = Ended(Saved(@), run.retry)]
        /\ UNCHANGED <<faults, pushed>>
     \/ /\ run.new # {} /\ Fault /\ Hidden
        /\ job' = [job EXCEPT ![run.job] = Ended(@, TRUE)]
  /\ run' = Idle /\ owed' = {}
  /\ UNCHANGED <<promotionVars, queued>>

(* A stalled job goes back to the queue.                                   *)
WorkerCrash ==
  /\ run # Idle /\ Fault /\ Hidden
  /\ job' = [job EXCEPT ![run.job].state = "waiting"]
  /\ run' = Idle /\ owed' = {}
  /\ UNCHANGED <<promotionVars, queued>>

Promote(p) == Commit(p) \/ Notify(p) \/ ReadUsage(p) \/ Mark(p) \/ Announce(p)
Dispatch == (\E j \in Jobs : Start(j)) \/ (\E d \in Devices : Send(d)) \/ Finish
Next ==
  \/ \E p \in Promotions : Promote(p) \/ PromotionCrash(p)
  \/ Dispatch \/ WorkerCrash

Spec == Init /\ [][Next]_vars
FairSpec == Spec /\ WF_vars(Dispatch) /\ \A p \in Promotions : WF_vars(Promote(p))

-----------------------------------------------------------------------------
TypeOK ==
  /\ spent \subseteq Promotions /\ marked \subseteq Thresholds
  /\ check \in [Promotions -> [pc: {"commit", "notify", "read", "mark", "announce", "done"},
                               left: SUBSET Thresholds, send: Thresholds \cup {None}]]
  /\ job \in [Jobs -> [state: {"none", "waiting", "active", "completed", "failed"},
                       tries: 0 .. Attempts, sent: SUBSET Devices]]
  /\ run \in [job: Jobs \cup {None}, to: SUBSET Devices, new: SUBSET Devices, retry: BOOLEAN]
  /\ run # Idle => job[run.job].state = "active"
  /\ faults \in 0 .. MaxFaults
  /\ queued \in [Jobs -> Nat] /\ pushed \in [Jobs -> SUBSET Devices]
  /\ owed \subseteq Devices

(* However the checks of several promotions interleave, nothing is queued  *)
(* twice in a month, not even after its first job was done and forgotten,  *)
(* and once the checks are over the highest threshold the spending has     *)
(* crossed was announced, unless a crash or the queue got in between.      *)
Settled == \A p \in Promotions : At(p, "done")
CrossingIsAnnounced ==
  /\ \A j \in Jobs : queued[j] <= 1
  /\ Settled /\ faults = 0 /\ Crossed # {} => queued[Max(Crossed)] = 1

(* A device hears of a job once, however many attempts there were: only a  *)
(* push whose answer a crash or a failed write lost goes out again.        *)
PushedOnce ==
  [][\A d \in run'.new \ run.new : d \notin pushed[run.job]]_vars

(* A job that is done owes no device of its last attempt another try, but  *)
(* for an error that could not be recorded (Unrecorded).                   *)
NothingOwed ==
  [][\A j \in Jobs : job[j].state = "active" /\ job'[j].state = "completed" => owed = {}]_vars

(* The queue drains: every job is sent, or out of attempts.                *)
AtRest == \A j \in Jobs : job[j].state \in {"none", "completed", "failed"}
QueueDrains == <>[]AtRest
=============================================================================
