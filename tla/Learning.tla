------------------------------- MODULE Learning -------------------------------
(***************************************************************************)
(* The control plane of one household's merchant-category models: datasets *)
(* built from a confirmed rule, the training runner, evaluations, model    *)
(* approval, the production alias with its canary and traffic policy, and  *)
(* the revocation that a changed rule or a privacy request sets off.       *)
(*                                                                         *)
(* A transaction is one step where row locks make it one.  What is read    *)
(* without a lock is a step of its own: the label a builder reads, the     *)
(* checks of requests, the runner's last look at its dataset.  A           *)
(* revocation holds the rows of its datasets from its first statement to   *)
(* its commit and updates the training runs it saw at the beginning.       *)
(***************************************************************************)
EXTENDS Naturals, Sequences, FiniteSets

CONSTANTS
  Datasets,     \* dataset snapshots; the model trained on one has its name
  External,     \* models registered by an operator
  None,         \* no dataset, no model, no label
  Labels,       \* categories of the rule
  Users,        \* requests that change the rule or revoke a dataset
  MaxRevision,  \* bound: revisions of the alias
  MaxRuns,      \* bound: training runs
  MaxCrashes    \* bound: runners killed or cut off

Models == Datasets \cup External

ASSUME LearningAssumption ==
  /\ None \notin Models \cup Labels /\ Datasets \cap External = {} /\ Datasets # {}
  /\ MaxRevision \in Nat \ {0} /\ MaxRuns \in Nat /\ MaxCrashes \in Nat

VARIABLES
  label,       \* merchant_category_rules.categoryId
  dataset,     \* dataset_snapshots: state and label; torn: inserted amid a change
  builder,     \* the label a build has read, None between builds
  requested,   \* datasets whose training request has passed its checks
  runs,        \* training_runs
  trainer,     \* the runner of each run
  crashes,
  model,       \* model_registry.status
  basis,       \* model_registry_approvals: the dataset of the evaluation
  evaluating,  \* evaluations that have passed their checks
  evaluation,  \* evaluation_runs that passed the gate
  alias,       \* model_aliases
  canary,      \* model_canary_runs, per alias revision
  policy,      \* the active row of model_traffic_policies
  tx           \* the transaction each user is in

dataVars == <<label, dataset, builder>>
runVars == <<requested, runs, trainer, crashes>>
modelVars == <<model, basis, evaluating, evaluation>>
servingVars == <<alias, canary, policy>>
vars == <<dataVars, runVars, modelVars, servingVars, tx>>

NoPolicy == [rev |-> 0, model |-> None, by |-> None]
NoTx == [pc |-> "idle", kind |-> "none", prev |-> None, to |-> None,
         ds |-> {}, seen |-> {}, named |-> {}, keys |-> {}]

Init ==
  /\ label \in Labels
  /\ dataset = [d \in Datasets |-> [state |-> "none", label |-> None, torn |-> FALSE]]
  /\ builder = [d \in Datasets |-> None]
  /\ requested = {} /\ runs = <<>> /\ trainer = <<>> /\ crashes = 0
  /\ model = [m \in Models |-> "none"] /\ basis = [m \in Models |-> None]
  /\ evaluating = {}
  /\ evaluation = [e \in Datasets \X Models |-> "none"]
  /\ alias = [model |-> None, rev |-> 0, by |-> None, prev |-> None, suspended |-> FALSE]
  /\ canary = [r \in 1 .. MaxRevision |-> "none"]
  /\ policy = NoPolicy
  /\ tx = [u \in Users |-> NoTx]

Approved(d) == dataset[d].state = "approved"
Held(d) == \E u \in Users : tx[u].pc = "held" /\ d \in tx[u].ds
IsRelabelling == \E u \in Users : tx[u].kind = "relabel"

-----------------------------------------------------------------------------
(* Datasets.  A build reads rules, stores its artifact and inserts the     *)
(* snapshot without looking at the rules again.                            *)
BuildRead(d) ==
  /\ dataset[d].state = "none" /\ builder[d] = None
  /\ builder' = [builder EXCEPT ![d] = label]
  /\ UNCHANGED <<label, dataset, runVars, modelVars, servingVars, tx>>

BuildInsert(d) ==
  /\ builder[d] # None
  /\ dataset' = [dataset EXCEPT ![d] =
       [state |-> "validated", label |-> builder[d],
        torn |-> builder[d] # label \/ IsRelabelling]]
  /\ builder' = [builder EXCEPT ![d] = None]
  /\ UNCHANGED <<label, runVars, modelVars, servingVars, tx>>

ApproveSnapshot(d) ==
  /\ dataset[d].state = "validated" /\ ~Held(d)
  /\ dataset' = [dataset EXCEPT ![d].state = "approved"]
  /\ UNCHANGED <<label, builder, runVars, modelVars, servingVars, tx>>

-----------------------------------------------------------------------------
(* Training: a request, and the one-off runner.                            *)
RequestRead(d) ==
  /\ Approved(d) /\ d \notin requested
  /\ requested' = requested \cup {d}
  /\ UNCHANGED <<dataVars, runs, trainer, crashes, modelVars, servingVars, tx>>

ReusableUnfinished(d) == \E r \in DOMAIN runs :   \* mutant: a success is trained again
  runs[r].ds = d /\ runs[r].state \in {"queued", "running"}

Reusable(d) == \E r \in DOMAIN runs :
  runs[r].ds = d /\ runs[r].state \in {"queued", "running", "succeeded"}
RequestInsert(d) ==
  /\ d \in requested
  /\ requested' = requested \ {d}
  /\ IF Reusable(d) THEN UNCHANGED <<runs, trainer>>
     ELSE /\ Len(runs) < MaxRuns
          /\ runs' = Append(runs, [ds |-> d, state |-> "queued", named |-> FALSE,
                                   object |-> FALSE])
          /\ trainer' = Append(trainer, "none")
  /\ UNCHANGED <<dataVars, crashes, modelVars, servingVars, tx>>

Claim(r) ==
  /\ trainer[r] = "none" /\ runs[r].state = "queued" /\ Approved(runs[r].ds)
  /\ runs' = [runs EXCEPT ![r].state = "running"]
  /\ trainer' = [trainer EXCEPT ![r] = "training"]
  /\ UNCHANGED <<dataVars, requested, crashes, modelVars, servingVars, tx>>

Store(r) ==
  /\ trainer[r] = "training"
  /\ runs' = [runs EXCEPT ![r].object = TRUE]
  /\ trainer' = [trainer EXCEPT ![r] = "stored"]
  /\ UNCHANGED <<dataVars, requested, crashes, modelVars, servingVars, tx>>

(* The last transaction: look at the dataset, write model and run, commit.  *)
CheckUnstored(r) ==   \* mutant: the model is written before its upload
  /\ trainer[r] \in {"training", "stored"} /\ Approved(runs[r].ds)
  /\ trainer' = [trainer EXCEPT ![r] = "checked"]
  /\ UNCHANGED <<dataVars, requested, runs, crashes, modelVars, servingVars, tx>>

Check(r) ==
  /\ trainer[r] = "stored" /\ Approved(runs[r].ds)
  /\ trainer' = [trainer EXCEPT ![r] = "checked"]
  /\ UNCHANGED <<dataVars, requested, runs, crashes, modelVars, servingVars, tx>>

Write(r) ==
  /\ trainer[r] = "checked" /\ runs[r].state = "running"
  /\ trainer' = [trainer EXCEPT ![r] = "writing"]
  /\ UNCHANGED <<dataVars, requested, runs, crashes, modelVars, servingVars, tx>>

Finish(r) ==
  /\ trainer[r] = "writing"
  /\ model' = [model EXCEPT ![runs[r].ds] = IF @ = "none" THEN "candidate" ELSE @]
  /\ runs' = [runs EXCEPT ![r].state = "succeeded", ![r].named = TRUE]
  /\ trainer' = [trainer EXCEPT ![r] = "done"]
  /\ UNCHANGED <<dataVars, requested, crashes, basis, evaluating, evaluation,
                 servingVars, tx>>

(* The reply of a commit is lost: the runner takes it for a failure, deletes *)
(* the object if the storage answers, and finds no running run to end.     *)
LostReply(r) ==
  /\ trainer[r] = "writing" /\ crashes < MaxCrashes /\ crashes' = crashes + 1
  /\ model' = [model EXCEPT ![runs[r].ds] = IF @ = "none" THEN "candidate" ELSE @]
  /\ \E kept \in BOOLEAN :
       runs' = [runs EXCEPT ![r].state = "succeeded", ![r].named = TRUE, ![r].object = kept]
  /\ trainer' = [trainer EXCEPT ![r] = "misled"]
  /\ UNCHANGED <<dataVars, requested, basis, evaluating, evaluation, servingVars, tx>>

(* Any error, a refused look or a lost run: the object is deleted if the   *)
(* storage answers, and the run ends unless a revocation has ended it.     *)
TrainingFailsIfApproved(r) ==   \* mutant: the end is written for a usable dataset only
  /\ trainer[r] \in {"training", "stored", "checked", "writing"}
  /\ \E kept \in {FALSE, runs[r].object} :
       runs' = [runs EXCEPT ![r].object = kept,
                            ![r].state = IF @ = "running" /\ Approved(runs[r].ds)
                                         THEN "failed" ELSE @]
  /\ trainer' = [trainer EXCEPT ![r] = "done"]
  /\ UNCHANGED <<dataVars, requested, crashes, modelVars, servingVars, tx>>

TrainingFails(r) ==
  /\ trainer[r] \in {"training", "stored", "checked", "writing"}
  /\ \E kept \in {FALSE, runs[r].object} :
       runs' = [runs EXCEPT ![r].object = kept,
                            ![r].state = IF @ = "running" THEN "failed" ELSE @]
  /\ trainer' = [trainer EXCEPT ![r] = "done"]
  /\ UNCHANGED <<dataVars, requested, crashes, modelVars, servingVars, tx>>

TrainerCrash(r) ==
  /\ trainer[r] \in {"training", "stored", "checked", "writing"}
  /\ crashes < MaxCrashes /\ crashes' = crashes + 1
  /\ trainer' = [trainer EXCEPT ![r] = "dead"]
  /\ UNCHANGED <<dataVars, requested, runs, modelVars, servingVars, tx>>

-----------------------------------------------------------------------------
(* Models, evaluations and approval.                                       *)
RegisterModel(m) ==
  /\ m \in External /\ model[m] = "none"
  /\ model' = [model EXCEPT ![m] = "candidate"]
  /\ UNCHANGED <<dataVars, runVars, basis, evaluating, evaluation, servingVars, tx>>

EvaluationRead(d, m) ==
  /\ Approved(d) /\ model[m] \in {"candidate", "approved"}
  /\ evaluation[<<d, m>>] = "none" /\ <<d, m>> \notin evaluating
  /\ evaluating' = evaluating \cup {<<d, m>>}
  /\ UNCHANGED <<dataVars, runVars, model, basis, evaluation, servingVars, tx>>

EvaluationInsert(e) ==
  /\ e \in evaluating
  /\ evaluating' = evaluating \ {e}
  /\ evaluation' = [evaluation EXCEPT ![e] = "succeeded"]
  /\ UNCHANGED <<dataVars, runVars, model, basis, servingVars, tx>>

(* loadPromotionEvidence locks the evaluation and its dataset FOR SHARE.   *)
HasEvidence(m, d) ==
  d # None /\ evaluation[<<d, m>>] = "succeeded" /\ Approved(d)
IsWaiting(d) == d # None /\ Held(d)

ApproveModel(m, d) ==
  /\ model[m] = "candidate" /\ HasEvidence(m, d) /\ ~IsWaiting(d)
  /\ model' = [model EXCEPT ![m] = "approved"]
  /\ basis' = [basis EXCEPT ![m] = d]
  /\ UNCHANGED <<dataVars, runVars, evaluating, evaluation, servingVars, tx>>

-----------------------------------------------------------------------------
(* The alias, its canary and its traffic policy.                           *)
SupersededNever == canary   \* mutant: the old canary goes on

Superseded == [r \in DOMAIN canary |->
                 IF canary[r] = "monitoring" THEN "superseded" ELSE canary[r]]

Promote(m, d) ==
  /\ model[m] = "approved" /\ basis[m] # None /\ HasEvidence(m, d) /\ ~IsWaiting(d)
  /\ alias.model # m /\ alias.rev < MaxRevision
  /\ alias' = [model |-> m, rev |-> alias.rev + 1, by |-> d, prev |-> alias.model,
               suspended |-> FALSE]
  /\ canary' = IF alias.model = None THEN canary
               ELSE [Superseded EXCEPT ![alias.rev + 1] = "monitoring"]
  /\ policy' = NoPolicy
  /\ UNCHANGED <<dataVars, runVars, modelVars, tx>>

(* rollbackLocked: only to the model before this revision, on the evidence *)
(* it was approved with.                                                   *)
Target == alias.prev
CanRollback == /\ Target # None /\ model[Target] = "approved"
               /\ HasEvidence(Target, basis[Target])
Previous == [model |-> Target, rev |-> alias.rev + 1, by |-> basis[Target],
             prev |-> alias.model, suspended |-> FALSE]
RollbackIsFree == ~IsWaiting(IF Target = None THEN None ELSE basis[Target])

RollbackKeepsPolicy ==   \* mutant: the traffic policy outlives its revision
  /\ alias.rev \in 1 .. MaxRevision - 1 /\ CanRollback /\ RollbackIsFree
  /\ alias' = Previous /\ canary' = Superseded
  /\ UNCHANGED <<dataVars, runVars, modelVars, policy, tx>>

Rollback ==
  /\ alias.rev \in 1 .. MaxRevision - 1 /\ CanRollback /\ RollbackIsFree
  /\ alias' = Previous /\ canary' = Superseded /\ policy' = NoPolicy
  /\ UNCHANGED <<dataVars, runVars, modelVars, tx>>

(* A verdict on the canary of this revision, by hand or by the monitor; no *)
(* way back suspends the alias.                                            *)
CanaryPass ==
  /\ alias.rev > 0 /\ canary[alias.rev] = "monitoring" /\ ~alias.suspended
  /\ canary' = [canary EXCEPT ![alias.rev] = "passed"]
  /\ UNCHANGED <<dataVars, runVars, modelVars, alias, policy, tx>>
CanaryFail ==
  /\ alias.rev \in 1 .. MaxRevision - 1 /\ canary[alias.rev] = "monitoring"
  /\ ~alias.suspended /\ RollbackIsFree
  /\ alias' = IF CanRollback THEN Previous ELSE [alias EXCEPT !.suspended = TRUE]
  /\ canary' = [canary EXCEPT ![alias.rev] =
                  IF CanRollback THEN "rolled_back" ELSE "superseded"]
  /\ policy' = NoPolicy
  /\ UNCHANGED <<dataVars, runVars, modelVars, tx>>

CreatePolicy(m) ==
  /\ alias.model \notin {None, m} /\ ~alias.suspended
  /\ model[m] = "approved" /\ HasEvidence(m, basis[m])
  /\ policy' = [rev |-> alias.rev, model |-> m, by |-> basis[m]]
  /\ UNCHANGED <<dataVars, runVars, modelVars, alias, canary, tx>>
PausePolicy ==
  /\ policy # NoPolicy /\ policy' = NoPolicy
  /\ UNCHANGED <<dataVars, runVars, modelVars, alias, canary, tx>>

-----------------------------------------------------------------------------
(* Revocation.  A transaction that changes the rule reads the old category *)
(* first and upserts it; only a change of category revokes.                *)
RelabelRead(u, to) ==
  /\ tx[u].pc = "idle"
  /\ tx' = [tx EXCEPT ![u] = [NoTx EXCEPT !.pc = "read", !.kind = "relabel",
                                          !.prev = label, !.to = to]]
  /\ UNCHANGED <<dataVars, runVars, modelVars, servingVars>>

RunsOf(D) == {r \in DOMAIN runs : runs[r].ds \in D}
Holding(t, D) ==
  [t EXCEPT !.pc = "held", !.ds = D, !.seen = RunsOf(D),
            !.named = {runs[r].ds : r \in {x \in RunsOf(D) : runs[x].named}},
            !.keys = {r \in RunsOf(D) : runs[r].named /\ runs[r].object}]

Outdated == {d \in Datasets : dataset[d].state \notin {"none", "revoked"}}
AffectedApproved(u) ==   \* mutant: snapshots still waiting for approval are kept
  IF tx[u].prev # tx[u].to THEN {d \in Outdated : Approved(d)} ELSE {}

Affected(u) == IF tx[u].prev # tx[u].to THEN Outdated ELSE {}
RelabelHold(u) ==
  /\ tx[u].pc = "read"
  /\ \A v \in Users : tx[v].kind = "relabel" => tx[v].pc # "held"
  /\ \A d \in Affected(u) : ~Held(d)
  /\ tx' = [tx EXCEPT ![u] = Holding(@, Affected(u))]
  /\ UNCHANGED <<dataVars, runVars, modelVars, servingVars>>

RevokeSnapshot(u, d) ==
  /\ tx[u].pc = "idle" /\ dataset[d].state # "none" /\ ~Held(d)
  /\ tx' = [tx EXCEPT ![u] = Holding([NoTx EXCEPT !.kind = "privacy"], {d})]
  /\ UNCHANGED <<dataVars, runVars, modelVars, servingVars>>

(* revokeTrainingRuns, the evaluations, the alias and its canary.          *)
RevokedModel(m) == CASE model[m] = "candidate" -> "rejected"
                     [] model[m] = "approved" -> "retired"
                     [] OTHER -> model[m]
SuspendsTrained(u) == alias.model \in tx[u].named   \* mutant: only the models trained on it

Suspends(u) == alias.by \in tx[u].ds
RevokeCommit(u) ==
  LET t == tx[u] IN
  /\ t.pc = "held" /\ \A r \in t.seen : trainer[r] # "writing"
  /\ dataset' = [d \in Datasets |-> IF d \in t.ds THEN [dataset[d] EXCEPT !.state = "revoked"]
                                    ELSE dataset[d]]
  /\ label' = IF t.kind = "relabel" THEN t.to ELSE label
  /\ runs' = [r \in DOMAIN runs |-> IF r \in t.seen THEN [runs[r] EXCEPT !.state = "revoked"]
                                    ELSE runs[r]]
  /\ model' = [m \in Models |-> IF m \in t.named THEN RevokedModel(m) ELSE model[m]]
  /\ evaluation' = [e \in Datasets \X Models |->
                      IF e[1] \in t.ds /\ evaluation[e] = "succeeded" THEN "revoked"
                      ELSE evaluation[e]]
  /\ alias' = IF Suspends(u) THEN [alias EXCEPT !.suspended = TRUE] ELSE alias
  /\ canary' = IF Suspends(u) THEN Superseded ELSE canary
  /\ tx' = [tx EXCEPT ![u] = IF t.kind = "privacy" THEN [t EXCEPT !.pc = "purge", !.ds = {}]
                             ELSE NoTx]
  /\ UNCHANGED <<builder, requested, trainer, crashes, basis, evaluating, policy>>

(* A deadlock or a lost connection rolls the transaction back.             *)
RevokeAbort(u) ==
  /\ tx[u].pc = "held"
  /\ tx' = [tx EXCEPT ![u] = NoTx]
  /\ UNCHANGED <<dataVars, runVars, modelVars, servingVars>>

(* Objects are deleted after the commit; the storage may fail (503).       *)
Purge(u) ==
  /\ tx[u].pc = "purge"
  /\ \E gone \in {{}, tx[u].keys} :
       runs' = [r \in DOMAIN runs |-> IF r \in gone THEN [runs[r] EXCEPT !.object = FALSE]
                                      ELSE runs[r]]
  /\ tx' = [tx EXCEPT ![u] = NoTx]
  /\ UNCHANGED <<dataVars, requested, trainer, crashes, modelVars, servingVars>>

-----------------------------------------------------------------------------
Runner(r) == Claim(r) \/ Store(r) \/ Check(r) \/ Write(r) \/ Finish(r) \/ TrainingFails(r)
Revoking(u) ==
  \/ \E l \in Labels : RelabelRead(u, l)
  \/ \E d \in Datasets : RevokeSnapshot(u, d)
  \/ RelabelHold(u) \/ RevokeCommit(u) \/ RevokeAbort(u) \/ Purge(u)
Next ==
  \/ \E d \in Datasets : \/ BuildRead(d) \/ BuildInsert(d) \/ ApproveSnapshot(d)
                         \/ RequestRead(d) \/ RequestInsert(d)
  \/ \E r \in DOMAIN runs : Runner(r) \/ LostReply(r) \/ TrainerCrash(r)
  \/ \E m \in Models : RegisterModel(m) \/ CreatePolicy(m)
  \/ \E d \in Datasets, m \in Models :
       EvaluationRead(d, m) \/ ApproveModel(m, d) \/ Promote(m, d)
  \/ \E e \in evaluating : EvaluationInsert(e)
  \/ Rollback \/ CanaryPass \/ CanaryFail \/ PausePolicy
  \/ \E u \in Users : Revoking(u)

Spec == Init /\ [][Next]_vars

(* A runner that has started goes on until it ends or is killed.           *)
Progress(r) == r \in DOMAIN runs /\
  (Store(r) \/ Check(r) \/ Write(r) \/ Finish(r) \/ TrainingFails(r))
FairSpec == Spec /\ \A r \in 1 .. MaxRuns : WF_vars(Progress(r))

-----------------------------------------------------------------------------
TypeOK ==
  /\ label \in Labels
  /\ dataset \in [Datasets -> [state: {"none", "validated", "approved", "revoked"},
                               label: Labels \cup {None}, torn: BOOLEAN]]
  /\ builder \in [Datasets -> Labels \cup {None}]
  /\ requested \subseteq Datasets /\ crashes \in 0 .. MaxCrashes
  /\ runs \in Seq([ds: Datasets, named: BOOLEAN, object: BOOLEAN,
                   state: {"queued", "running", "succeeded", "failed", "revoked"}])
  /\ trainer \in Seq({"none", "training", "stored", "checked", "writing", "done",
                    "misled", "dead"})
  /\ Len(trainer) = Len(runs)
  /\ model \in [Models -> {"none", "candidate", "approved", "rejected", "retired"}]
  /\ basis \in [Models -> Datasets \cup {None}]
  /\ evaluating \subseteq Datasets \X Models
  /\ evaluation \in [Datasets \X Models -> {"none", "succeeded", "revoked"}]
  /\ alias \in [model: Models \cup {None}, rev: 0 .. MaxRevision,
                by: Datasets \cup {None}, prev: Models \cup {None}, suspended: BOOLEAN]
  /\ canary \in [1 .. MaxRevision ->
                   {"none", "monitoring", "passed", "rolled_back", "superseded"}]
  /\ policy \in [rev: 0 .. MaxRevision, model: Models \cup {None},
                 by: Datasets \cup {None}]
  /\ tx \in [Users -> [pc: {"idle", "read", "held", "purge"},
                       kind: {"none", "relabel", "privacy"},
                       prev: Labels \cup {None}, to: Labels \cup {None},
                       ds: SUBSET Datasets, seen: SUBSET (1 .. Len(runs)),
                       named: SUBSET Models, keys: SUBSET (1 .. Len(runs))]]

(* Whatever revocations run beside promotions and rollbacks, an alias that *)
(* serves rests on a passed evaluation over a dataset still approved.      *)
AliasFollowsEvidence ==
  alias.model # None /\ ~alias.suspended => HasEvidence(alias.model, alias.by)

(* Only the revision that serves is watched; no canary outlives a          *)
(* promotion, a rollback, a suspension or a revocation.                    *)
CanaryWatchesAlias ==
  \A r \in DOMAIN canary :
    canary[r] = "monitoring" => r = alias.rev /\ ~alias.suspended

(* Traffic is split between the serving model and another one, never with  *)
(* a policy of an earlier revision.                                        *)
PolicyFollowsAlias ==
  policy # NoPolicy => policy.rev = alias.rev /\ policy.model # alias.model

(* A snapshot of an old category is revoked, unless a change of the rule   *)
(* was under way, or had happened since the build began, at its insertion. *)
SnapshotsFollowLabels ==
  \A d \in Outdated : dataset[d].torn \/ dataset[d].label = label

(* A run that succeeded, and is not revoked, has its model and, unless its *)
(* runner never heard so, its artifact: no purge takes it away.            *)
SucceededRunIsLoadable ==
  \A r \in DOMAIN runs : runs[r].state = "succeeded" =>
    model[runs[r].ds] # "none" /\ (runs[r].object \/ trainer[r] = "misled")

(* Two runs are never at work on one dataset, nor one beside a success.    *)
OneRunPerDataset ==
  \A q, r \in DOMAIN runs :
    q # r /\ runs[q].ds = runs[r].ds =>
      ~(runs[q].state \in {"running", "succeeded"} /\ runs[r].state \in {"running", "succeeded"})

(* A run under way ends, unless its runner is killed.                      *)
TrainingEnds ==
  \A r \in 1 .. MaxRuns :
    (r \in DOMAIN runs /\ runs[r].state = "running") ~>
      (r \in DOMAIN runs /\ (runs[r].state # "running" \/ trainer[r] = "dead"))
=============================================================================
