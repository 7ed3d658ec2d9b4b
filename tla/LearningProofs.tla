---------------------------- MODULE LearningProofs ----------------------------
(***************************************************************************)
(* Proofs about Learning.  The invariants fall into three groups that look *)
(* at different rows: what a dataset says of the rule, what a training run *)
(* has, and what serves.  Each group is inductive beside the types.        *)
(***************************************************************************)
EXTENDS Learning, SequenceTheorems, TLAPS

(* The rows each group looks at. *)
ruleVars == <<dataVars, tx>>
workVars == <<runs, trainer, model, tx>>
aliasVars == <<alias, canary, policy, dataset, evaluation>>

(* A build under way has no snapshot yet; a revocation holds snapshots.    *)
BuildersAreFirst == \A d \in Datasets : builder[d] # None => dataset[d].state = "none"
HeldExist == \A u \in Users : \A d \in tx[u].ds : dataset[d].state # "none"

(* A change of the rule read the category every sound snapshot has, and    *)
(* one that changes it holds all of them.                                  *)
Relabelling(u) == tx[u].kind = "relabel" /\ tx[u].pc \in {"read", "held"}
Sound == {d \in Outdated : ~dataset[d].torn}
RelabelsAgree ==
  \A u \in Users :
    /\ Relabelling(u) => \A d \in Sound : dataset[d].label = tx[u].prev
    /\ Relabelling(u) /\ tx[u].pc = "held" /\ tx[u].prev # tx[u].to => Sound \subseteq tx[u].ds
KindsAgree ==
  \A u \in Users : /\ tx[u].pc = "idle" => tx[u].kind = "none"
                   /\ tx[u].pc = "purge" => tx[u].kind = "privacy"
                   /\ tx[u].kind = "none" => tx[u].pc = "idle"
                   /\ tx[u].pc # "held" => tx[u].ds = {}
RuleInv == BuildersAreFirst /\ HeldExist /\ KindsAgree /\ RelabelsAgree /\ SnapshotsFollowLabels

(* A runner that writes has claimed its run and stored the artifact; what  *)
(* is to be purged is revoked; one run of a dataset is not over.           *)
Active == {"queued", "running", "succeeded"}
OneActive ==
  \A q, r \in DOMAIN runs :
    q # r /\ runs[q].ds = runs[r].ds => runs[q].state \notin Active \/ runs[r].state \notin Active
RunnersAgree ==
  \A r \in DOMAIN runs :
    /\ trainer[r] = "writing" => runs[r].state = "running"
    /\ trainer[r] \in {"stored", "checked", "writing"} /\ runs[r].state = "running"
         => runs[r].object
    /\ runs[r].state = "succeeded" => trainer[r] \in {"done", "misled"}
KeysAgree ==
  \A u \in Users : \A r \in tx[u].keys :
    /\ tx[u].pc = "held" => r \in tx[u].seen
    /\ tx[u].pc = "purge" => runs[r].state = "revoked"
    /\ tx[u].pc \in {"held", "purge"}
RunInv == OneActive /\ RunnersAgree /\ KeysAgree /\ SucceededRunIsLoadable

(* Revision 0 is the alias before its first promotion. *)
ServedIsPromoted == alias.model = None <=> alias.rev = 0
ServingInv == ServedIsPromoted /\ AliasFollowsEvidence /\ CanaryWatchesAlias /\ PolicyFollowsAlias

(* A change of the rule has a category to change it to.                    *)
RelabelsName == \A u \in Users : tx[u].kind = "relabel" => tx[u].to \in Labels


-----------------------------------------------------------------------------
(* The rows of the training runs and of the transactions. *)
Run == [ds: Datasets, named: BOOLEAN, object: BOOLEAN,
        state: {"queued", "running", "succeeded", "failed", "revoked"}]
TrainerState == {"none", "training", "stored", "checked", "writing", "done", "misled", "dead"}

(* A function over the positions of a sequence is a sequence as long.  *)
LEMMA SameLength ==
  ASSUME NEW S, NEW T, NEW s \in Seq(S), NEW t \in [DOMAIN s -> T]
  PROVE  t \in Seq(T) /\ Len(t) = Len(s) /\ DOMAIN t = DOMAIN s
<1>1. Len(s) \in Nat /\ DOMAIN s = 1 .. Len(s)
  BY LenProperties
<1>2. t \in Seq(T)
  BY <1>1, SeqDef
<1> QED
  BY <1>1, <1>2, LenProperties

(* What TypeOK says of the runs, as functions on their positions. *)
LEMMA RunTypes ==
  ASSUME TypeOK
  PROVE  /\ DOMAIN runs = 1 .. Len(runs) /\ DOMAIN trainer = 1 .. Len(runs)
         /\ Len(runs) \in Nat
         /\ runs \in Seq(Run) /\ trainer \in Seq(TrainerState)
         /\ runs \in [1 .. Len(runs) -> Run] /\ trainer \in [1 .. Len(runs) -> TrainerState]
BY LenProperties DEF TypeOK, Run, TrainerState

(* The parts of the type invariant that a group of actions can disturb.    *)
DataTypes ==
  /\ label \in Labels
  /\ dataset \in [Datasets -> [state: {"none", "validated", "approved", "revoked"},
                               label: Labels \cup {None}, torn: BOOLEAN]]
  /\ builder \in [Datasets -> Labels \cup {None}]
  /\ requested \subseteq Datasets /\ crashes \in 0 .. MaxCrashes
RowTypes ==
  runs \in Seq(Run) /\ trainer \in Seq(TrainerState) /\ Len(trainer) = Len(runs)
ModelTypes ==
  /\ model \in [Models -> {"none", "candidate", "approved", "rejected", "retired"}]
  /\ basis \in [Models -> Datasets \cup {None}]
  /\ evaluating \subseteq Datasets \X Models
  /\ evaluation \in [Datasets \X Models -> {"none", "succeeded", "revoked"}]
ServingTypes ==
  /\ alias \in [model: Models \cup {None}, rev: 0 .. MaxRevision,
                by: Datasets \cup {None}, prev: Models \cup {None}, suspended: BOOLEAN]
  /\ canary \in [1 .. MaxRevision ->
                   {"none", "monitoring", "passed", "rolled_back", "superseded"}]
  /\ policy \in [rev: 0 .. MaxRevision, model: Models \cup {None},
                 by: Datasets \cup {None}]
Tx(n) == [pc: {"idle", "read", "held", "purge"},
          kind: {"none", "relabel", "privacy"},
          prev: Labels \cup {None}, to: Labels \cup {None},
          ds: SUBSET Datasets, seen: SUBSET (1 .. n),
          named: SUBSET Models, keys: SUBSET (1 .. n)]
TxTypes == tx \in [Users -> Tx(Len(runs))]

(* The type invariant is its parts, before a step and after it.            *)
LEMMA TypeParts ==
  /\ TypeOK <=> DataTypes /\ RowTypes /\ ModelTypes /\ ServingTypes /\ TxTypes
  /\ TypeOK' <=> DataTypes' /\ RowTypes' /\ ModelTypes' /\ ServingTypes' /\ TxTypes'
BY DEF TypeOK, DataTypes, RowTypes, ModelTypes, ServingTypes, TxTypes, Tx, Run, TrainerState

(* Datasets: builds, approvals and the two halves of a training request.   *)
LEMMA DataStepTypes ==
  ASSUME TypeOK, LearningAssumption, NEW d \in Datasets,
         BuildRead(d) \/ BuildInsert(d) \/ ApproveSnapshot(d) \/ RequestRead(d)
  PROVE  TypeOK'
<1>1. DataTypes'
  <2> DEFINE Row == [state: {"none", "validated", "approved", "revoked"},
                     label: Labels \cup {None}, torn: BOOLEAN]
  <2>1. CASE BuildRead(d)
    BY <2>1 DEF TypeOK, DataTypes, BuildRead, runVars
  <2>2. CASE BuildInsert(d)
    <3> DEFINE row == [state |-> "validated", label |-> builder[d],
                       torn |-> builder[d] # label \/ IsRelabelling]
    <3>1. row.torn \in BOOLEAN /\ dataset' = [dataset EXCEPT ![d] = row]
      BY <2>2 DEF BuildInsert
    <3>2. row \in Row
      BY <3>1 DEF TypeOK
    <3>3. builder' = [builder EXCEPT ![d] = None] /\ UNCHANGED <<label, requested, crashes>>
      BY <2>2 DEF BuildInsert, runVars
    <3>4. dataset \in [Datasets -> Row]
      BY DEF TypeOK
    <3> HIDE DEF row, Row
    <3>5. dataset' \in [Datasets -> Row]
      BY <3>1, <3>2, <3>4
    <3> QED
      BY <3>3, <3>5 DEF TypeOK, DataTypes, Row
  <2>3. CASE ApproveSnapshot(d)
    <3>1. dataset' = [dataset EXCEPT ![d] = [dataset[d] EXCEPT !.state = "approved"]]
      BY <2>3 DEF TypeOK, ApproveSnapshot
    <3>2. UNCHANGED <<label, builder, requested, crashes>>
      BY <2>3 DEF ApproveSnapshot, runVars
    <3>3. dataset \in [Datasets -> Row] /\ dataset[d] \in Row
      BY DEF TypeOK
    <3>5. [dataset[d] EXCEPT !.state = "approved"] \in Row
      BY <3>3
    <3>4. dataset' \in [Datasets -> Row]
      <4> HIDE DEF Row
      <4> QED BY <3>1, <3>3, <3>5
    <3> QED
      BY <3>2, <3>4 DEF TypeOK, DataTypes
  <2>4. CASE RequestRead(d)
    BY <2>4 DEF TypeOK, DataTypes, RequestRead, dataVars
  <2> QED
    BY <2>1, <2>2, <2>3, <2>4
<1>2. UNCHANGED <<runs, trainer, modelVars, servingVars, tx>>
  BY DEF BuildRead, BuildInsert, ApproveSnapshot, RequestRead, runVars
<1> QED
  BY <1>1, <1>2, TypeParts DEF RowTypes, ModelTypes, ServingTypes, TxTypes, modelVars, servingVars

(* A request adds at most one queued run.                                  *)
LEMMA RequestTypes ==
  ASSUME TypeOK, NEW d \in Datasets, RequestInsert(d)
  PROVE  TypeOK'
<1>1. DataTypes' /\ UNCHANGED <<modelVars, servingVars, tx>>
  BY DEF TypeOK, DataTypes, RequestInsert, dataVars
<1>2. CASE Reusable(d)
  BY <1>1, <1>2, TypeParts
  DEF RequestInsert, RowTypes, ModelTypes, ServingTypes, TxTypes, modelVars, servingVars
<1>3. CASE ~Reusable(d)
  <2> DEFINE row == [ds |-> d, state |-> "queued", named |-> FALSE, object |-> FALSE]
  <2>1. runs' = Append(runs, row) /\ trainer' = Append(trainer, "none")
    BY <1>3 DEF RequestInsert
  <2>2. row \in Run /\ "none" \in TrainerState
    BY DEF Run, TrainerState
  <2> HIDE DEF row
  <2>3. RowTypes' /\ Len(runs') = Len(runs) + 1 /\ Len(runs) \in Nat
    BY <2>1, <2>2, RunTypes, AppendProperties DEF RowTypes, TypeOK
  <2>4. TxTypes'
    <3>1. Tx(Len(runs)) \subseteq Tx(Len(runs'))
      BY <2>3 DEF Tx
    <3> QED
      BY <1>1, <3>1, TypeParts DEF TxTypes
  <2> QED
    BY <1>1, <2>3, <2>4, TypeParts DEF ModelTypes, ServingTypes, modelVars, servingVars
<1> QED
  BY <1>2, <1>3

(* The runner changes its own row and, at the end, the model's.            *)
LEMMA RunnerTypes ==
  ASSUME TypeOK, LearningAssumption, NEW r \in DOMAIN runs,
         Runner(r) \/ LostReply(r) \/ TrainerCrash(r)
  PROVE  TypeOK'
<1>1. r \in 1 .. Len(runs) /\ runs[r] \in Run /\ runs[r].object \in BOOLEAN
      /\ Len(trainer) = Len(runs)
  BY RunTypes, LenProperties DEF Run, TypeOK
<1>2. \E row \in Run : runs' = [runs EXCEPT ![r] = row]
  <2>1. runs = [runs EXCEPT ![r] = runs[r]]
    BY RunTypes
  <2>2. CASE Claim(r)
    BY <1>1, <2>2, RunTypes DEF Claim, Run
  <2>3. CASE Store(r)
    BY <1>1, <2>3, RunTypes DEF Store, Run
  <2>4. CASE Check(r) \/ Write(r) \/ TrainerCrash(r)
    BY <1>1, <2>1, <2>4 DEF Check, Write, TrainerCrash
  <2>5. CASE Finish(r)
    <3> DEFINE row == [runs[r] EXCEPT !.state = "succeeded", !.named = TRUE]
    <3>1. row \in Run
      BY <1>1 DEF Run
    <3>2. runs' = [runs EXCEPT ![r] = row]
      BY <2>5, <1>1, RunTypes DEF Finish
    <3> QED
      BY <3>1, <3>2
  <2>6. CASE LostReply(r)
    <3>1. PICK k \in BOOLEAN :
            runs' = [runs EXCEPT ![r].state = "succeeded", ![r].named = TRUE, ![r].object = k]
      BY <2>6 DEF LostReply
    <3> DEFINE row == [runs[r] EXCEPT !.state = "succeeded", !.named = TRUE, !.object = k]
    <3>2. row \in Run
      BY <1>1 DEF Run
    <3>3. runs' = [runs EXCEPT ![r] = row]
      BY <3>1, <1>1, RunTypes
    <3> QED
      BY <3>2, <3>3
  <2>7. CASE TrainingFails(r)
    <3>1. PICK k \in {FALSE, runs[r].object} :
            runs' = [runs EXCEPT ![r].object = k,
                                 ![r].state = IF @ = "running" THEN "failed" ELSE @]
      BY <2>7 DEF TrainingFails
    <3> DEFINE row == [runs[r] EXCEPT !.object = k,
                                      !.state = IF @ = "running" THEN "failed" ELSE @]
    <3>2. row \in Run
      BY <1>1 DEF Run
    <3>3. runs' = [runs EXCEPT ![r] = row]
      BY <3>1, <1>1, RunTypes
    <3> QED
      BY <3>2, <3>3
  <2> QED
    BY <2>2, <2>3, <2>4, <2>5, <2>6, <2>7 DEF Runner
<1>3. \E t \in TrainerState : trainer' = [trainer EXCEPT ![r] = t]
  BY <1>1, RunTypes
  DEF Runner, Claim, Store, Check, Write, Finish, TrainingFails, LostReply, TrainerCrash, TrainerState
<1>4. RowTypes' /\ Len(runs') = Len(runs)
  BY <1>1, <1>2, <1>3, RunTypes, ExceptSeq DEF RowTypes
<1>5. UNCHANGED <<servingVars, tx>> /\ DataTypes'
  <2>1. UNCHANGED <<label, dataset, builder, requested, tx, alias, canary, policy>>
        /\ (crashes' = crashes \/ (crashes < MaxCrashes /\ crashes' = crashes + 1))
    <3>1. CASE Claim(r) \/ Store(r) \/ Check(r) \/ Write(r)
      BY <3>1 DEF Claim, Store, Check, Write, dataVars, servingVars
    <3>2. CASE Finish(r)
      BY <3>2 DEF Finish, dataVars, servingVars
    <3>3. CASE TrainingFails(r)
      BY <3>3 DEF TrainingFails, dataVars, servingVars
    <3>4. CASE LostReply(r) \/ TrainerCrash(r)
      BY <3>4 DEF LostReply, TrainerCrash, dataVars, servingVars
    <3> QED
      BY <3>1, <3>2, <3>3, <3>4 DEF Runner
  <2>2. crashes' \in 0 .. MaxCrashes
    BY <2>1, LearningAssumption DEF TypeOK, LearningAssumption
  <2> QED
    BY <2>1, <2>2 DEF TypeOK, DataTypes, servingVars
<1>6. ModelTypes'
  <2>1. CASE Finish(r) \/ LostReply(r)
    <3>1. runs[r].ds \in Models
      BY <1>1 DEF Run, Models
    <3>2. model' = [model EXCEPT ![runs[r].ds] = IF @ = "none" THEN "candidate" ELSE @]
          /\ UNCHANGED <<basis, evaluating, evaluation>>
      BY <2>1 DEF Finish, LostReply
    <3> QED
      BY <3>1, <3>2 DEF TypeOK, ModelTypes
  <2>2. CASE ~(Finish(r) \/ LostReply(r))
    BY <2>2 DEF TypeOK, ModelTypes, modelVars,
      Runner, Claim, Store, Check, Write, TrainingFails, TrainerCrash
  <2> QED
    BY <2>1, <2>2
<1> QED
  BY <1>4, <1>5, <1>6, TypeParts DEF ServingTypes, TxTypes, servingVars

(* Evaluations and the approval of a model.                                *)
LEMMA ModelStepTypes ==
  ASSUME TypeOK, NEW m \in Models, NEW d \in Datasets,
         \/ RegisterModel(m) \/ EvaluationRead(d, m) \/ ApproveModel(m, d)
         \/ \E e \in evaluating : EvaluationInsert(e)
  PROVE  TypeOK'
<1>2. ModelTypes'
  <2>1. CASE RegisterModel(m)
    BY <2>1 DEF TypeOK, ModelTypes, RegisterModel
  <2>2. CASE EvaluationRead(d, m)
    BY <2>2 DEF TypeOK, ModelTypes, EvaluationRead
  <2>3. CASE ApproveModel(m, d)
    BY <2>3 DEF TypeOK, ModelTypes, ApproveModel
  <2>4. ASSUME NEW e \in evaluating, EvaluationInsert(e) PROVE ModelTypes'
    <3>1. e \in Datasets \X Models
      BY DEF TypeOK
    <3> QED
      BY <2>4, <3>1 DEF TypeOK, ModelTypes, EvaluationInsert
  <2> QED
    BY <2>1, <2>2, <2>3, <2>4
<1>3. UNCHANGED <<dataVars, runVars, servingVars, tx>>
  BY DEF RegisterModel, EvaluationRead, ApproveModel, EvaluationInsert
<1> QED
  BY <1>2, <1>3, TypeParts
  DEF DataTypes, RowTypes, ServingTypes, TxTypes, dataVars, runVars, servingVars

(* Promotions, rollbacks, canary verdicts and traffic policies.            *)
LEMMA ServingStepTypes ==
  ASSUME TypeOK, LearningAssumption, NEW m \in Models, NEW d \in Datasets,
         \/ Promote(m, d) \/ Rollback \/ CanaryPass \/ CanaryFail
         \/ CreatePolicy(m) \/ PausePolicy
  PROVE  TypeOK'
<1> USE DEF LearningAssumption
<1>1. NoPolicy \in [rev: 0 .. MaxRevision, model: Models \cup {None}, by: Datasets \cup {None}]
  BY DEF NoPolicy
<1>2. Superseded \in [1 .. MaxRevision -> {"none", "monitoring", "passed", "rolled_back", "superseded"}]
  BY DEF TypeOK, Superseded
<1>3. ASSUME alias.rev \in 1 .. MaxRevision - 1, CanRollback
      PROVE  Previous \in [model: Models \cup {None}, rev: 0 .. MaxRevision,
                by: Datasets \cup {None}, prev: Models \cup {None}, suspended: BOOLEAN]
  BY <1>3 DEF TypeOK, Previous, Target, CanRollback
<1>4. ServingTypes'
  <2>1. CASE Promote(m, d)
    BY <1>1, <1>2, <2>1 DEF TypeOK, ServingTypes, Promote
  <2>2. CASE Rollback
    BY <1>1, <1>2, <1>3, <2>2 DEF TypeOK, ServingTypes, Rollback
  <2>3. CASE CanaryPass
    <3>1. canary' = [canary EXCEPT ![alias.rev] = "passed"] /\ UNCHANGED <<alias, policy>>
      BY <2>3 DEF CanaryPass
    <3> QED
      BY <3>1 DEF TypeOK, ServingTypes
  <2>6. CASE PausePolicy
    BY <1>1, <2>6 DEF TypeOK, ServingTypes, PausePolicy
  <2>4. CASE CanaryFail
    <3>1. CASE CanRollback
      BY <1>1, <1>2, <1>3, <2>4, <3>1 DEF TypeOK, ServingTypes, CanaryFail
    <3>2. CASE ~CanRollback
      <4>1. alias' = [alias EXCEPT !.suspended = TRUE] /\ policy' = NoPolicy
            /\ canary' = [canary EXCEPT ![alias.rev] = "superseded"]
        BY <2>4, <3>2 DEF CanaryFail
      <4> QED
        BY <1>1, <4>1 DEF TypeOK, ServingTypes
    <3> QED
      BY <3>1, <3>2
  <2>5. CASE CreatePolicy(m)
    BY <2>5 DEF TypeOK, ServingTypes, CreatePolicy
  <2> QED
    BY <2>1, <2>2, <2>3, <2>4, <2>5, <2>6
<1>5. UNCHANGED <<dataVars, runVars, modelVars, tx>>
  BY DEF Promote, Rollback, CanaryPass, CanaryFail, CreatePolicy, PausePolicy
<1> QED
  BY <1>4, <1>5, TypeParts
  DEF DataTypes, RowTypes, ModelTypes, TxTypes, dataVars, runVars, modelVars

(* A revocation sees runs, names models and collects keys that exist.      *)
LEMMA HoldingTypes ==
  ASSUME TypeOK, NEW t \in Tx(Len(runs)), NEW D \in SUBSET Datasets
  PROVE  Holding(t, D) \in Tx(Len(runs))
<1>1. RunsOf(D) \subseteq 1 .. Len(runs)
  BY RunTypes DEF RunsOf
<1>2. {runs[r].ds : r \in {x \in RunsOf(D) : runs[x].named}} \subseteq Models
  BY <1>1, RunTypes DEF Run, Models
<1>3. {r \in RunsOf(D) : runs[r].named /\ runs[r].object} \subseteq 1 .. Len(runs)
  BY <1>1
<1> QED
  BY <1>1, <1>2, <1>3 DEF Holding, Tx

(* The steps of a revocation up to its commit change its own row only.     *)
LEMMA HoldStepTypes ==
  ASSUME TypeOK, NEW u \in Users, NEW l \in Labels, NEW d \in Datasets,
         RelabelRead(u, l) \/ RelabelHold(u) \/ RevokeSnapshot(u, d) \/ RevokeAbort(u)
  PROVE  TypeOK'
<1>1. NoTx \in Tx(Len(runs)) /\ tx[u] \in Tx(Len(runs)) /\ label \in Labels
  BY TypeParts DEF NoTx, Tx, TxTypes, DataTypes
<1>2. \E t \in Tx(Len(runs)) : tx' = [tx EXCEPT ![u] = t]
  <2>1. CASE RelabelRead(u, l)
    BY <1>1, <2>1 DEF RelabelRead, Tx
  <2>2. CASE RelabelHold(u)
    <3>1. Affected(u) \in SUBSET Datasets
      BY DEF Affected, Outdated
    <3> QED
      BY <1>1, <2>2, <3>1, HoldingTypes DEF RelabelHold
  <2>3. CASE RevokeSnapshot(u, d)
    <3>1. [NoTx EXCEPT !.kind = "privacy"] \in Tx(Len(runs))
      BY <1>1 DEF Tx
    <3> QED
      BY <2>3, <3>1, HoldingTypes DEF RevokeSnapshot
  <2>4. CASE RevokeAbort(u)
    BY <1>1, <2>4 DEF RevokeAbort
  <2> QED
    BY <2>1, <2>2, <2>3, <2>4
<1>3. UNCHANGED <<dataVars, runVars, modelVars, servingVars>>
  BY DEF RelabelRead, RelabelHold, RevokeSnapshot, RevokeAbort
<1>4. TxTypes'
  BY <1>2, <1>3, TypeParts DEF TxTypes, runVars
<1> QED
  BY <1>3, <1>4, TypeParts
  DEF DataTypes, RowTypes, ModelTypes, ServingTypes, dataVars, runVars, modelVars, servingVars

(* The commit ends the runs it saw; the purge forgets their objects.       *)
LEMMA EndStepTypes ==
  ASSUME TypeOK, RelabelsName, NEW u \in Users, RevokeCommit(u) \/ Purge(u)
  PROVE  TypeOK'
<1>1. NoTx \in Tx(Len(runs)) /\ tx[u] \in Tx(Len(runs))
  BY TypeParts DEF NoTx, Tx, TxTypes
<1>2. runs' \in [DOMAIN runs -> Run] /\ UNCHANGED trainer
  <2>1. \A r \in DOMAIN runs : /\ runs[r] \in Run
                               /\ [runs[r] EXCEPT !.state = "revoked"] \in Run
                               /\ [runs[r] EXCEPT !.object = FALSE] \in Run
    <3>1. \A r \in DOMAIN runs : runs[r] \in Run
      BY RunTypes
    <3> QED
      BY <3>1 DEF Run
  <2>2. CASE RevokeCommit(u)
    BY <2>1, <2>2 DEF RevokeCommit
  <2>3. CASE Purge(u)
    BY <2>1, <2>3 DEF Purge
  <2> QED
    BY <2>2, <2>3
<1>3. RowTypes' /\ Len(runs') = Len(runs)
  <2>1. runs \in Seq(Run) /\ trainer \in Seq(TrainerState) /\ Len(trainer) = Len(runs)
    BY RunTypes DEF TypeOK
  <2>2. runs' \in Seq(Run) /\ Len(runs') = Len(runs)
    BY <1>2, <2>1, SameLength
  <2> QED
    BY <1>2, <2>1, <2>2 DEF RowTypes
<1>4. \E t \in Tx(Len(runs)) : tx' = [tx EXCEPT ![u] = t]
  BY <1>1 DEF RevokeCommit, Purge, Tx
<1>5. TxTypes'
  BY <1>3, <1>4, TypeParts DEF TxTypes
<1>6. DataTypes'
  <2>1. CASE RevokeCommit(u)
    <3>1. label' \in Labels
      BY <2>1, <1>1 DEF RevokeCommit, TypeOK, RelabelsName
    <3> DEFINE Row == [state: {"none", "validated", "approved", "revoked"},
                       label: Labels \cup {None}, torn: BOOLEAN]
    <3>2. \A d \in Datasets : dataset[d] \in Row
      BY DEF TypeOK
    <3>3. \A d \in Datasets : [dataset[d] EXCEPT !.state = "revoked"] \in Row
      BY <3>2
    <3> HIDE DEF Row
    <3>4. dataset' \in [Datasets -> Row]
      BY <2>1, <3>2, <3>3 DEF RevokeCommit
    <3>5. UNCHANGED <<builder, requested, crashes>>
      BY <2>1 DEF RevokeCommit
    <3> QED
      BY <3>1, <3>4, <3>5 DEF TypeOK, DataTypes, Row
  <2>2. CASE Purge(u)
    BY <2>2 DEF Purge, TypeOK, DataTypes, dataVars
  <2> QED
    BY <2>1, <2>2
<1>7. ModelTypes' /\ ServingTypes'
  <2>1. CASE Purge(u)
    BY <2>1 DEF Purge, TypeOK, ModelTypes, ServingTypes, modelVars, servingVars
  <2>2. CASE RevokeCommit(u)
    <3>1. \A m \in Models :
            RevokedModel(m) \in {"none", "candidate", "approved", "rejected", "retired"}
      BY DEF RevokedModel, TypeOK
    <3>2. ModelTypes'
      BY <2>2, <3>1 DEF RevokeCommit, TypeOK, ModelTypes
    <3>3. Superseded \in [1 .. MaxRevision ->
                         {"none", "monitoring", "passed", "rolled_back", "superseded"}]
      BY DEF TypeOK, Superseded
    <3>4. [alias EXCEPT !.suspended = TRUE] \in
            [model: Models \cup {None}, rev: 0 .. MaxRevision,
             by: Datasets \cup {None}, prev: Models \cup {None}, suspended: BOOLEAN]
      BY DEF TypeOK
    <3> QED
      BY <2>2, <3>2, <3>3, <3>4 DEF RevokeCommit, TypeOK, ServingTypes
  <2> QED
    BY <2>1, <2>2
<1> QED
  BY <1>3, <1>5, <1>6, <1>7, TypeParts

(* Type correctness is inductive: every step of Next keeps it.             *)
LEMMA NextTypes ==
  ASSUME TypeOK, RelabelsName, LearningAssumption, [Next]_vars
  PROVE  TypeOK' /\ RelabelsName'
<1>1. ASSUME UNCHANGED tx PROVE RelabelsName'
  BY <1>1 DEF RelabelsName
<1>2. CASE UNCHANGED vars
  BY <1>1, <1>2 DEF TypeOK, vars, dataVars, runVars, modelVars, servingVars
<1>3. ASSUME NEW d \in Datasets,
             BuildRead(d) \/ BuildInsert(d) \/ ApproveSnapshot(d) \/ RequestRead(d)
      PROVE  TypeOK' /\ RelabelsName'
  <2>1. UNCHANGED tx
    BY <1>3 DEF BuildRead, BuildInsert, ApproveSnapshot, RequestRead
  <2> QED
    BY <1>1, <1>3, <2>1, DataStepTypes
<1>4. ASSUME NEW d \in Datasets, RequestInsert(d) PROVE TypeOK' /\ RelabelsName'
  BY <1>1, <1>4, RequestTypes DEF RequestInsert
<1>5. ASSUME NEW r \in DOMAIN runs, Runner(r) \/ LostReply(r) \/ TrainerCrash(r)
      PROVE  TypeOK' /\ RelabelsName'
  <2>1. UNCHANGED tx
    BY <1>5 DEF Runner, Claim, Store, Check, Write, Finish, TrainingFails, LostReply, TrainerCrash
  <2> QED
    BY <1>1, <1>5, <2>1, RunnerTypes
<1>6. ASSUME NEW m \in Models, NEW d \in Datasets,
             \/ RegisterModel(m) \/ EvaluationRead(d, m) \/ ApproveModel(m, d)
             \/ \E e \in evaluating : EvaluationInsert(e)
      PROVE  TypeOK' /\ RelabelsName'
  <2>1. UNCHANGED tx
    BY <1>6 DEF RegisterModel, EvaluationRead, ApproveModel, EvaluationInsert
  <2> QED
    BY <1>1, <1>6, <2>1, ModelStepTypes
<1>7. ASSUME NEW m \in Models, NEW d \in Datasets,
             \/ Promote(m, d) \/ Rollback \/ CanaryPass \/ CanaryFail
             \/ CreatePolicy(m) \/ PausePolicy
      PROVE  TypeOK' /\ RelabelsName'
  <2>1. UNCHANGED tx
    BY <1>7 DEF Promote, Rollback, CanaryPass, CanaryFail, CreatePolicy, PausePolicy
  <2> QED
    BY <1>1, <1>7, <2>1, ServingStepTypes
<1>8. ASSUME NEW u \in Users, NEW l \in Labels, NEW d \in Datasets,
             RelabelRead(u, l) \/ RelabelHold(u) \/ RevokeSnapshot(u, d) \/ RevokeAbort(u)
      PROVE  TypeOK' /\ RelabelsName'
  <2>1. \E t : tx' = [tx EXCEPT ![u] = t] /\ (t.kind = "relabel" => t.to \in Labels)
    <3>1. CASE RelabelRead(u, l)
      <4> DEFINE t == [NoTx EXCEPT !.pc = "read", !.kind = "relabel", !.prev = label, !.to = l]
      <4>1. t.to = l /\ tx' = [tx EXCEPT ![u] = t]
        BY <3>1 DEF RelabelRead, NoTx
      <4> HIDE DEF t
      <4> QED
        BY <4>1
    <3>2. CASE RelabelHold(u)
      <4> DEFINE t == Holding(tx[u], Affected(u))
      <4>1. tx' = [tx EXCEPT ![u] = t]
        BY <3>2 DEF RelabelHold, TypeOK
      <4>2. t.kind = tx[u].kind /\ t.to = tx[u].to
        BY DEF TypeOK, Holding
      <4> QED
        BY <4>1, <4>2 DEF RelabelsName
    <3>3. CASE RevokeSnapshot(u, d)
      <4> DEFINE t == Holding([NoTx EXCEPT !.kind = "privacy"], {d})
      <4>1. t.kind = "privacy"
        BY DEF NoTx, Holding
      <4> QED
        BY <3>3, <4>1 DEF RevokeSnapshot
    <3>4. CASE RevokeAbort(u)
      <4>1. NoTx.kind = "none" /\ tx' = [tx EXCEPT ![u] = NoTx]
        BY <3>4 DEF RevokeAbort, NoTx
      <4> QED
        BY <4>1
    <3> QED
      BY <1>8, <3>1, <3>2, <3>3, <3>4
  <2>2. RelabelsName'
    BY <2>1 DEF TypeOK, RelabelsName
  <2> QED
    BY <1>8, <2>2, HoldStepTypes
<1>9. ASSUME NEW u \in Users, RevokeCommit(u) \/ Purge(u) PROVE TypeOK' /\ RelabelsName'
  <2>1. \E t : tx' = [tx EXCEPT ![u] = t] /\ t.kind # "relabel"
    <3>1. CASE RevokeCommit(u)
      <4> DEFINE t == IF tx[u].kind = "privacy" THEN [tx[u] EXCEPT !.pc = "purge", !.ds = {}]
                      ELSE NoTx
      <4>1. t.kind # "relabel"
        BY DEF NoTx, TypeOK
      <4> QED
        BY <3>1, <4>1 DEF RevokeCommit
    <3>2. CASE Purge(u)
      <4>1. NoTx.kind = "none" /\ tx' = [tx EXCEPT ![u] = NoTx]
        BY <3>2 DEF Purge, NoTx
      <4> QED
        BY <4>1
    <3> QED
      BY <1>9, <3>1, <3>2
  <2>2. RelabelsName'
    BY <2>1 DEF TypeOK, RelabelsName
  <2> QED
    BY <1>9, <2>2, EndStepTypes
<1>10. PICK d \in Datasets : d \in Models
  BY LearningAssumption DEF LearningAssumption, Models
<1>11. label \in Labels
  BY DEF TypeOK
<1> QED
  BY <1>2, <1>3, <1>4, <1>5, <1>6, <1>7, <1>8, <1>9, <1>10, <1>11 DEF Next, Revoking

(* The types hold in every state of the control plane. *)
THEOREM LearningTypes == Spec => []TypeOK
<1>1. Init => TypeOK /\ RelabelsName
  BY LearningAssumption DEF Init, TypeOK, RelabelsName, LearningAssumption, NoTx, NoPolicy
<1>2. TypeOK /\ RelabelsName /\ [Next]_vars => (TypeOK /\ RelabelsName)'
  BY NextTypes, LearningAssumption
<1> QED
  BY <1>1, <1>2, PTL DEF Spec

-----------------------------------------------------------------------------
(* What serves.                                                            *)

(* A step that leaves alias, canary, policy and their evidence alone.      *)
LEMMA ServingFrame == ServingInv /\ UNCHANGED aliasVars => ServingInv'
BY DEF ServingInv, aliasVars, ServedIsPromoted, AliasFollowsEvidence, HasEvidence, Approved,
       CanaryWatchesAlias, PolicyFollowsAlias

(* More evidence never harms: a build, an approval or an evaluation.       *)
LEMMA EvidenceGrows ==
  ASSUME ServingInv, UNCHANGED <<alias, canary, policy>>,
         \A d \in Datasets, m \in Models : HasEvidence(m, d) => HasEvidence(m, d)',
         TypeOK
  PROVE  ServingInv'
<1>1. AliasFollowsEvidence'
  <2>1. alias.model # None => alias.model \in Models
    BY DEF TypeOK
  <2>2. HasEvidence(alias.model, alias.by) => alias.by \in Datasets
    BY DEF TypeOK, HasEvidence
  <2>3. \A m, d : HasEvidence(m, d)' <=> d # None /\ evaluation'[<<d, m>>] = "succeeded"
                                         /\ dataset'[d].state = "approved"
    BY DEF HasEvidence, Approved
  <2> QED
    BY <2>1, <2>2, <2>3 DEF ServingInv, AliasFollowsEvidence, HasEvidence, Approved
<1> QED
  BY <1>1 DEF ServingInv, ServedIsPromoted, CanaryWatchesAlias, PolicyFollowsAlias

(* A promotion rests on evidence locked until it commits, and starts the   *)
(* canary of its revision.                                                 *)
LEMMA PromoteServes ==
  ASSUME TypeOK, ServingInv, LearningAssumption, NEW m \in Models, NEW d \in Datasets,
         Promote(m, d)
  PROVE  ServingInv'
<1> USE DEF LearningAssumption
<1>1. /\ alias'.model = m /\ alias'.rev = alias.rev + 1 /\ alias'.by = d
      /\ ~alias'.suspended /\ policy' = NoPolicy /\ UNCHANGED <<dataset, evaluation>>
      /\ alias.rev \in 0 .. MaxRevision /\ m # None
  BY DEF Promote, TypeOK, dataVars, modelVars
<1>2. ServedIsPromoted' /\ PolicyFollowsAlias'
  BY <1>1 DEF ServedIsPromoted, PolicyFollowsAlias, NoPolicy
<1>3. AliasFollowsEvidence'
  BY <1>1 DEF Promote, AliasFollowsEvidence, HasEvidence, Approved
<1>4. CanaryWatchesAlias'
  <2>1. CASE alias.model = None
    BY <1>1, <2>1 DEF Promote, TypeOK, ServingInv, ServedIsPromoted, CanaryWatchesAlias
  <2>2. CASE alias.model # None
    BY <1>1, <2>2 DEF Promote, TypeOK, ServingInv, CanaryWatchesAlias, Superseded
  <2> QED
    BY <2>1, <2>2
<1> QED
  BY <1>2, <1>3, <1>4 DEF ServingInv

(* A rollback, asked for or caused by a canary, keeps evidence for what it *)
(* brings back.                                                            *)
LEMMA RollbackServes ==
  ASSUME TypeOK, ServingInv, LearningAssumption, Rollback \/ CanaryFail
  PROVE  ServingInv'
<1> USE DEF LearningAssumption
<1>1. alias.rev \in 1 .. MaxRevision - 1 /\ policy' = NoPolicy
      /\ UNCHANGED <<dataset, evaluation>>
  BY DEF Rollback, CanaryFail, dataVars, modelVars
<1>2. CASE CanRollback /\ alias' = Previous
  <2>1. /\ alias'.model = Target /\ alias'.rev = alias.rev + 1 /\ alias'.by = basis[Target]
        /\ Target # None /\ ~alias'.suspended
    BY <1>2 DEF Previous, CanRollback
  <2>2. \A r \in DOMAIN canary' : canary'[r] # "monitoring"
    <3>1. CASE canary' = Superseded
      BY <3>1 DEF Superseded
    <3>2. CASE canary' = [canary EXCEPT ![alias.rev] = "rolled_back"]
      BY <3>2 DEF TypeOK, ServingInv, CanaryWatchesAlias
    <3> QED
      BY <1>2, <3>1, <3>2 DEF Rollback, CanaryFail
  <2> QED
    BY <1>1, <1>2, <2>1, <2>2
    DEF ServingInv, ServedIsPromoted, PolicyFollowsAlias, NoPolicy, AliasFollowsEvidence,
        CanRollback, HasEvidence, Approved, CanaryWatchesAlias, TypeOK
<1>3. CASE ~CanRollback
  <2>1. alias' = [alias EXCEPT !.suspended = TRUE]
        /\ canary' = [canary EXCEPT ![alias.rev] = "superseded"]
    BY <1>3 DEF Rollback, CanaryFail
  <2> QED
    BY <1>1, <2>1
    DEF ServingInv, ServedIsPromoted, PolicyFollowsAlias, NoPolicy, AliasFollowsEvidence,
        CanaryWatchesAlias, TypeOK
<1> QED
  BY <1>2, <1>3 DEF Rollback, CanaryFail

(* A revocation suspends the alias whose evidence it takes away.           *)
LEMMA RevocationServes ==
  ASSUME TypeOK, ServingInv, LearningAssumption, NEW u \in Users, RevokeCommit(u)
  PROVE  ServingInv'
<1>1. tx[u].ds \subseteq Datasets /\ UNCHANGED policy
  BY DEF TypeOK, RevokeCommit
<1>2. CASE Suspends(u)
  <2>1. alias' = [alias EXCEPT !.suspended = TRUE] /\ canary' = Superseded
    BY <1>2 DEF RevokeCommit
  <2> QED
    BY <1>1, <2>1
    DEF ServingInv, ServedIsPromoted, PolicyFollowsAlias, NoPolicy, AliasFollowsEvidence,
        CanaryWatchesAlias, Superseded, TypeOK
<1>3. CASE ~Suspends(u)
  <2>1. UNCHANGED <<alias, canary>>
    BY <1>3 DEF RevokeCommit
  <2>2. \A d \in Datasets, m \in Models :
          d \notin tx[u].ds => dataset'[d] = dataset[d] /\ evaluation'[<<d, m>>] = evaluation[<<d, m>>]
    BY DEF RevokeCommit
  <2>3. AliasFollowsEvidence'
    <3>1. SUFFICES ASSUME alias.model # None, ~alias.suspended
                   PROVE  alias.by # None /\ evaluation'[<<alias.by, alias.model>>] = "succeeded"
                          /\ dataset'[alias.by].state = "approved"
      BY <2>1 DEF AliasFollowsEvidence, HasEvidence, Approved
    <3>2. HasEvidence(alias.model, alias.by) /\ alias.model \in Models /\ alias.by \in Datasets
      BY <3>1 DEF ServingInv, AliasFollowsEvidence, TypeOK, HasEvidence
    <3> QED
      BY <1>3, <2>2, <3>2 DEF HasEvidence, Approved, Suspends
  <2> QED
    BY <1>1, <2>1, <2>3 DEF ServingInv, ServedIsPromoted, PolicyFollowsAlias, CanaryWatchesAlias
<1> QED
  BY <1>2, <1>3

(* Every step of Next keeps what serves in order.                          *)
LEMMA ServingNext ==
  ASSUME TypeOK, ServingInv, BuildersAreFirst, LearningAssumption, [Next]_vars
  PROVE  ServingInv'
<1>1. CASE UNCHANGED aliasVars
  BY <1>1, ServingFrame
<1>2. ASSUME NEW d \in Datasets, BuildInsert(d) \/ ApproveSnapshot(d) PROVE ServingInv'
  <2>1. UNCHANGED <<alias, canary, policy, evaluation>>
    BY <1>2 DEF BuildInsert, ApproveSnapshot, servingVars, modelVars
  <2>2. \A c \in Datasets : Approved(c) => dataset'[c].state = "approved"
    BY <1>2 DEF BuildInsert, ApproveSnapshot, BuildersAreFirst, Approved, TypeOK
  <2> QED
    BY <2>1, <2>2, EvidenceGrows DEF HasEvidence, Approved
<1>3. ASSUME NEW e \in evaluating, EvaluationInsert(e) PROVE ServingInv'
  <2>1. UNCHANGED <<alias, canary, policy, dataset>>
        /\ evaluation' = [evaluation EXCEPT ![e] = "succeeded"]
    BY <1>3 DEF EvaluationInsert, servingVars, dataVars
  <2>2. \A d \in Datasets, m \in Models :
          evaluation[<<d, m>>] = "succeeded" => evaluation'[<<d, m>>] = "succeeded"
    BY <2>1 DEF TypeOK
  <2> QED
    BY <2>1, <2>2, EvidenceGrows DEF HasEvidence, Approved
<1>4. ASSUME NEW m \in Models, NEW d \in Datasets, Promote(m, d) PROVE ServingInv'
  BY <1>4, PromoteServes
<1>5. CASE Rollback \/ CanaryFail
  BY <1>5, RollbackServes
<1>6. ASSUME NEW u \in Users, RevokeCommit(u) PROVE ServingInv'
  BY <1>6, RevocationServes
<1>7. CASE CanaryPass
  <2>1. UNCHANGED <<alias, policy, dataset, evaluation>>
        /\ canary' = [canary EXCEPT ![alias.rev] = "passed"]
    BY <1>7 DEF CanaryPass, dataVars, modelVars
  <2> QED
    BY <2>1 DEF ServingInv, ServedIsPromoted, AliasFollowsEvidence, HasEvidence, Approved,
                PolicyFollowsAlias, CanaryWatchesAlias, TypeOK
<1>8. CASE PausePolicy \/ \E m \in Models : CreatePolicy(m)
  <2>1. UNCHANGED <<alias, canary, dataset, evaluation>>
    BY <1>8 DEF PausePolicy, CreatePolicy, dataVars, modelVars
  <2>2. PolicyFollowsAlias'
    BY <1>8, <2>1 DEF PausePolicy, CreatePolicy, PolicyFollowsAlias
  <2> QED
    BY <2>1, <2>2 DEF ServingInv, ServedIsPromoted, AliasFollowsEvidence, HasEvidence, Approved,
                      CanaryWatchesAlias
<1>9. ASSUME \/ UNCHANGED vars
             \/ \E d \in Datasets : BuildRead(d) \/ RequestRead(d) \/ RequestInsert(d)
             \/ \E r \in DOMAIN runs : Runner(r) \/ LostReply(r) \/ TrainerCrash(r)
             \/ \E m \in Models : RegisterModel(m)
             \/ \E d \in Datasets, m \in Models : EvaluationRead(d, m) \/ ApproveModel(m, d)
             \/ \E u \in Users : \/ \E l \in Labels : RelabelRead(u, l)
                                \/ \E d \in Datasets : RevokeSnapshot(u, d)
                                \/ RelabelHold(u) \/ RevokeAbort(u) \/ Purge(u)
      PROVE  UNCHANGED aliasVars
  BY <1>9 DEF vars, aliasVars, dataVars, modelVars, servingVars, BuildRead, RequestRead,
    RequestInsert, Runner, Claim, Store, Check, Write, Finish, TrainingFails, LostReply,
    TrainerCrash, RegisterModel, EvaluationRead, ApproveModel, RelabelRead, RevokeSnapshot,
    RelabelHold, RevokeAbort, Purge
<1> QED
  BY <1>1, <1>2, <1>3, <1>4, <1>5, <1>6, <1>7, <1>8, <1>9 DEF Next, Revoking

-----------------------------------------------------------------------------
(* What a dataset says of the rule.                                        *)

(* A step that leaves datasets, builds and transactions alone.             *)
LEMMA RuleFrame == RuleInv /\ UNCHANGED ruleVars => RuleInv'
BY DEF RuleInv, ruleVars, dataVars, BuildersAreFirst, HeldExist, KindsAgree, RelabelsAgree,
       Relabelling, Sound, Outdated, SnapshotsFollowLabels

(* A snapshot inserted while no change is under way says what the rule does;*)
(* one inserted amid a change is marked.                                   *)
LEMMA BuildRules ==
  ASSUME TypeOK, RuleInv, NEW d \in Datasets,
         BuildRead(d) \/ BuildInsert(d) \/ ApproveSnapshot(d)
  PROVE  RuleInv'
<1>1. UNCHANGED <<label, tx>>
  BY DEF BuildRead, BuildInsert, ApproveSnapshot
<1>2. CASE BuildRead(d)
  <2>1. UNCHANGED dataset /\ dataset[d].state = "none" /\ builder' = [builder EXCEPT ![d] = label]
    BY <1>2 DEF BuildRead
  <2> QED
    BY <1>1, <2>1 DEF RuleInv, BuildersAreFirst, HeldExist, KindsAgree, RelabelsAgree,
       Relabelling, Sound, Outdated, SnapshotsFollowLabels, TypeOK
<1>3. CASE BuildInsert(d)
  <2>1. /\ dataset[d].state = "none" /\ dataset'[d].state = "validated"
        /\ dataset'[d].label = builder[d]
        /\ dataset'[d].torn <=> builder[d] # label \/ IsRelabelling
        /\ \A c \in Datasets \ {d} : dataset'[c] = dataset[c] /\ builder'[c] = builder[c]
        /\ builder'[d] = None
    BY <1>3 DEF BuildInsert, TypeOK, RuleInv, BuildersAreFirst
  <2>2. Sound' = IF dataset'[d].torn THEN Sound ELSE Sound \cup {d}
    BY <2>1 DEF Sound, Outdated
  <2>3. \A u \in Users : Relabelling(u) => dataset'[d].torn
    BY <2>1 DEF Relabelling, IsRelabelling
  <2>4. RelabelsAgree'
    BY <1>1, <2>1, <2>2, <2>3 DEF RuleInv, RelabelsAgree, Relabelling, Sound, Outdated
  <2>5. SnapshotsFollowLabels'
    BY <1>1, <2>1 DEF RuleInv, SnapshotsFollowLabels, Outdated
  <2>6. HeldExist' /\ KindsAgree'
    BY <1>1, <2>1 DEF RuleInv, HeldExist, KindsAgree, TypeOK
  <2>7. BuildersAreFirst'
    BY <2>1 DEF RuleInv, BuildersAreFirst
  <2> QED
    BY <2>4, <2>5, <2>6, <2>7 DEF RuleInv
<1>4. CASE ApproveSnapshot(d)
  <2>1. /\ dataset[d].state = "validated" /\ dataset'[d].state = "approved"
        /\ dataset'[d].label = dataset[d].label /\ dataset'[d].torn = dataset[d].torn
        /\ \A c \in Datasets \ {d} : dataset'[c] = dataset[c]
        /\ UNCHANGED builder
    BY <1>4 DEF ApproveSnapshot, TypeOK
  <2>2. Sound' = Sound /\ Outdated' = Outdated
        /\ \A c \in Datasets : dataset'[c].label = dataset[c].label
                               /\ dataset'[c].torn = dataset[c].torn
    BY <2>1 DEF Sound, Outdated
  <2>3. RelabelsAgree' /\ SnapshotsFollowLabels'
    BY <1>1, <2>2 DEF RuleInv, RelabelsAgree, Relabelling, Sound, Outdated, SnapshotsFollowLabels
  <2>4. HeldExist'
    <3>1. \A c \in Datasets : dataset[c].state # "none" => dataset'[c].state # "none"
      BY <2>1
    <3> QED
      BY <1>1, <3>1 DEF RuleInv, HeldExist, TypeOK
  <2>5. BuildersAreFirst'
    BY <2>1 DEF RuleInv, BuildersAreFirst
  <2>6. KindsAgree'
    BY <1>1 DEF RuleInv, KindsAgree
  <2> QED
    BY <2>3, <2>4, <2>5, <2>6 DEF RuleInv
<1> QED
  BY <1>2, <1>3, <1>4

(* A transaction that begins, or takes its rows.                           *)
LEMMA HoldRules ==
  ASSUME TypeOK, RuleInv, NEW u \in Users, NEW l \in Labels, NEW d \in Datasets,
         \/ RelabelRead(u, l) \/ RelabelHold(u) \/ RevokeSnapshot(u, d)
         \/ RevokeAbort(u) \/ Purge(u)
  PROVE  RuleInv'
<1>1. UNCHANGED dataVars
  BY DEF RelabelRead, RelabelHold, RevokeSnapshot, RevokeAbort, Purge
<1>2. \A v \in Users \ {u} : tx'[v] = tx[v]
  BY DEF RelabelRead, RelabelHold, RevokeSnapshot, RevokeAbort, Purge, TypeOK
<1>3. UNCHANGED <<Sound, Outdated>> /\ BuildersAreFirst' /\ SnapshotsFollowLabels'
  BY <1>1 DEF dataVars, Sound, Outdated, RuleInv, BuildersAreFirst, SnapshotsFollowLabels
<1>4. CASE RelabelRead(u, l)
  <2>1. tx'[u].pc = "read" /\ tx'[u].kind = "relabel" /\ tx'[u].prev = label /\ tx'[u].ds = {}
    BY <1>4 DEF RelabelRead, NoTx, TypeOK
  <2> QED
    BY <1>1, <1>2, <1>3, <2>1
    DEF dataVars, RuleInv, HeldExist, KindsAgree, RelabelsAgree, Relabelling, Sound, Outdated,
        SnapshotsFollowLabels
<1>5. CASE RelabelHold(u)
  <2>1. /\ tx[u].pc = "read" /\ tx'[u].pc = "held" /\ tx'[u].kind = tx[u].kind
        /\ tx'[u].prev = tx[u].prev /\ tx'[u].to = tx[u].to /\ tx'[u].ds = Affected(u)
    BY <1>5 DEF RelabelHold, Holding, TypeOK
  <2>2. tx[u].kind # "none"
    BY <2>1 DEF RuleInv, KindsAgree
  <2>3. Affected(u) \subseteq Outdated /\ (tx[u].prev # tx[u].to => Affected(u) = Outdated)
    BY DEF Affected
  <2> QED
    BY <1>1, <1>2, <1>3, <2>1, <2>2, <2>3
    DEF dataVars, RuleInv, HeldExist, KindsAgree, RelabelsAgree, Relabelling, Sound, Outdated
<1>6. CASE RevokeSnapshot(u, d)
  <2>1. /\ tx'[u].pc = "held" /\ tx'[u].kind = "privacy" /\ tx'[u].ds = {d}
        /\ dataset[d].state # "none"
    BY <1>6 DEF RevokeSnapshot, Holding, NoTx, TypeOK
  <2> QED
    BY <1>1, <1>2, <1>3, <2>1
    DEF dataVars, RuleInv, HeldExist, KindsAgree, RelabelsAgree, Relabelling, Sound, Outdated
<1>7. CASE RevokeAbort(u) \/ Purge(u)
  <2>1. tx'[u].pc = "idle" /\ tx'[u].kind = "none" /\ tx'[u].ds = {}
    BY <1>7 DEF RevokeAbort, Purge, NoTx, TypeOK
  <2> QED
    BY <1>1, <1>2, <1>3, <2>1
    DEF dataVars, RuleInv, HeldExist, KindsAgree, RelabelsAgree, Relabelling, Sound, Outdated
<1> QED
  BY <1>4, <1>5, <1>6, <1>7

(* A committed change has revoked every sound snapshot, or changed nothing. *)
LEMMA CommitRules ==
  ASSUME TypeOK, RuleInv, NEW u \in Users, RevokeCommit(u)
  PROVE  RuleInv'
<1>1. /\ \A v \in Users \ {u} : tx'[v] = tx[v]
      /\ tx[u].pc = "held" /\ UNCHANGED builder
      /\ tx[u].kind \in {"relabel", "privacy"}
  BY DEF RevokeCommit, TypeOK, RuleInv, KindsAgree
<1>2. /\ tx'[u].ds = {} /\ tx'[u].pc \in {"idle", "purge"}
      /\ tx'[u].kind = IF tx[u].kind = "privacy" THEN "privacy" ELSE "none"
      /\ tx'[u].pc = IF tx[u].kind = "privacy" THEN "purge" ELSE "idle"
  BY DEF RevokeCommit, TypeOK, NoTx
<1>3. \A d \in Datasets :
        /\ dataset'[d].state = IF d \in tx[u].ds THEN "revoked" ELSE dataset[d].state
        /\ dataset'[d].label = dataset[d].label /\ dataset'[d].torn = dataset[d].torn
  BY DEF RevokeCommit, TypeOK
<1>4. Outdated' = Outdated \ tx[u].ds /\ Sound' = Sound \ tx[u].ds
  BY <1>3 DEF Sound, Outdated
<1>5. SnapshotsFollowLabels'
  <2>1. SUFFICES ASSUME NEW d \in Sound' PROVE dataset[d].label = label'
    BY <1>3, <1>4 DEF SnapshotsFollowLabels, Sound, Outdated
  <2>2. d \in Sound /\ d \notin tx[u].ds /\ dataset[d].label = label
    BY <1>4, <2>1 DEF RuleInv, SnapshotsFollowLabels, Sound
  <2>3. CASE tx[u].kind = "relabel"
    <3>1. label' = tx[u].to /\ Relabelling(u)
      BY <1>1, <2>3 DEF RevokeCommit, Relabelling
    <3> QED
      BY <1>1, <2>2, <3>1 DEF RuleInv, RelabelsAgree
  <2>4. CASE tx[u].kind = "privacy"
    BY <2>2, <2>4 DEF RevokeCommit
  <2> QED
    BY <1>1, <2>3, <2>4
<1>6. RelabelsAgree'
  BY <1>1, <1>2, <1>3, <1>4 DEF RuleInv, RelabelsAgree, Relabelling, Sound, Outdated
<1>7. HeldExist'
  BY <1>1, <1>2, <1>3 DEF RuleInv, HeldExist, TypeOK
<1>8. BuildersAreFirst'
  BY <1>1, <1>3 DEF RuleInv, HeldExist, BuildersAreFirst
<1>9. KindsAgree'
  BY <1>1, <1>2 DEF RuleInv, KindsAgree
<1> QED
  BY <1>5, <1>6, <1>7, <1>8, <1>9 DEF RuleInv

(* Every step of Next keeps the rule and its snapshots in order.           *)
LEMMA RuleNext ==
  ASSUME TypeOK, RuleInv, [Next]_vars
  PROVE  RuleInv'
<1>1. CASE UNCHANGED ruleVars
  BY <1>1, RuleFrame
<1>2. ASSUME NEW d \in Datasets, BuildRead(d) \/ BuildInsert(d) \/ ApproveSnapshot(d)
      PROVE  RuleInv'
  BY <1>2, BuildRules
<1>3. ASSUME NEW u \in Users, Revoking(u) PROVE RuleInv'
  <2>1. label \in Labels
    BY DEF TypeOK
  <2>2. CASE RevokeCommit(u)
    BY <1>3, <2>2, CommitRules
  <2>3. PICK c \in Datasets : TRUE
    BY LearningAssumption DEF LearningAssumption
  <2> QED
    BY <1>3, <2>1, <2>2, <2>3, HoldRules DEF Revoking
<1>4. ASSUME \/ UNCHANGED vars
             \/ \E d \in Datasets : RequestRead(d) \/ RequestInsert(d)
             \/ \E r \in DOMAIN runs : Runner(r) \/ LostReply(r) \/ TrainerCrash(r)
             \/ \E m \in Models : RegisterModel(m) \/ CreatePolicy(m)
             \/ \E d \in Datasets, m \in Models :
                  EvaluationRead(d, m) \/ ApproveModel(m, d) \/ Promote(m, d)
             \/ \E e \in evaluating : EvaluationInsert(e)
             \/ Rollback \/ CanaryPass \/ CanaryFail \/ PausePolicy
      PROVE  UNCHANGED ruleVars
  BY <1>4 DEF vars, ruleVars, RequestRead, RequestInsert, Runner, Claim, Store, Check, Write,
    Finish, TrainingFails, LostReply, TrainerCrash, RegisterModel, CreatePolicy, EvaluationRead,
    ApproveModel, Promote, EvaluationInsert, Rollback, CanaryPass, CanaryFail, PausePolicy
<1> QED
  BY <1>1, <1>2, <1>3, <1>4 DEF Next

(* Under every order of builds, changes of the rule, revocations and       *)
(* retries, no snapshot of an old category stays usable unless it was      *)
(* inserted amid a change.                                                 *)
THEOREM SnapshotsFollowLabelsAlways == Spec => []SnapshotsFollowLabels
<1>1. Init => TypeOK /\ RelabelsName /\ RuleInv
  <2>1. Init => RuleInv
    BY DEF Init, RuleInv, BuildersAreFirst, HeldExist, KindsAgree, RelabelsAgree, Relabelling,
           Sound, Outdated, SnapshotsFollowLabels, NoTx
  <2>2. Init => TypeOK /\ RelabelsName
    BY LearningAssumption DEF Init, TypeOK, RelabelsName, LearningAssumption, NoTx, NoPolicy
  <2> QED
    BY <2>1, <2>2
<1>2. TypeOK /\ RelabelsName /\ RuleInv /\ [Next]_vars => (TypeOK /\ RelabelsName /\ RuleInv)'
  BY NextTypes, RuleNext, LearningAssumption
<1>3. RuleInv => SnapshotsFollowLabels
  BY DEF RuleInv
<1> QED
  BY <1>1, <1>2, <1>3, PTL DEF Spec

(* An alias that serves rests on a passed evaluation over an approved      *)
(* dataset, only its revision is watched, and traffic is split with        *)
(* another model under a policy of this revision.                          *)
THEOREM ServingAlways ==
  Spec => [](AliasFollowsEvidence /\ CanaryWatchesAlias /\ PolicyFollowsAlias)
<1>1. Init => TypeOK /\ RelabelsName /\ RuleInv /\ ServingInv
  <2>1. Init => RuleInv
    BY DEF Init, RuleInv, BuildersAreFirst, HeldExist, KindsAgree, RelabelsAgree, Relabelling,
           Sound, Outdated, SnapshotsFollowLabels, NoTx
  <2>2. Init => TypeOK /\ RelabelsName
    BY LearningAssumption DEF Init, TypeOK, RelabelsName, LearningAssumption, NoTx, NoPolicy
  <2>3. Init => ServingInv
    BY DEF Init, ServingInv, ServedIsPromoted, AliasFollowsEvidence, CanaryWatchesAlias,
           PolicyFollowsAlias
  <2> QED
    BY <2>1, <2>2, <2>3
<1>2. TypeOK /\ RelabelsName /\ RuleInv /\ ServingInv /\ [Next]_vars
        => (TypeOK /\ RelabelsName /\ RuleInv /\ ServingInv)'
  <2>1. RuleInv => BuildersAreFirst
    BY DEF RuleInv
  <2> QED
    BY <2>1, NextTypes, RuleNext, ServingNext, LearningAssumption
<1>3. ServingInv => AliasFollowsEvidence /\ CanaryWatchesAlias /\ PolicyFollowsAlias
  BY DEF ServingInv
<1> QED
  BY <1>1, <1>2, <1>3, PTL DEF Spec

-----------------------------------------------------------------------------
(* What a training run has.                                                *)

(* A step that leaves runs, runners, models and transactions alone, but for *)
(* the status of models there are.                                         *)
LEMMA RunFrame ==
  ASSUME RunInv, TypeOK, UNCHANGED <<runs, trainer, tx>>,
         \A m \in Models : model[m] # "none" => model'[m] # "none"
  PROVE  RunInv'
<1>1. \A r \in DOMAIN runs : runs[r].ds \in Models
  BY RunTypes DEF Run, Models
<1>2. SucceededRunIsLoadable'
  BY <1>1 DEF RunInv, SucceededRunIsLoadable
<1> QED
  BY <1>2 DEF RunInv, OneActive, RunnersAgree, KeysAgree

(* A request finds no run of the dataset that is not over.                 *)
LEMMA RequestRuns ==
  ASSUME RunInv, TypeOK, NEW d \in Datasets, RequestInsert(d)
  PROVE  RunInv'
<1>1. CASE Reusable(d)
  BY <1>1, RunFrame DEF RequestInsert, modelVars
<1>2. CASE ~Reusable(d)
  <2> DEFINE row == [ds |-> d, state |-> "queued", named |-> FALSE, object |-> FALSE]
             n == Len(runs) + 1
  <2>1. runs' = Append(runs, row) /\ trainer' = Append(trainer, "none") /\ UNCHANGED <<tx, model>>
    BY <1>2 DEF RequestInsert, modelVars
  <2>2. row \in Run /\ "none" \in TrainerState
    BY DEF Run, TrainerState
  <2>3. /\ Len(runs) \in Nat /\ DOMAIN runs = 1 .. Len(runs) /\ DOMAIN runs' = 1 .. n
        /\ runs'[n] = row /\ trainer'[n] = "none"
        /\ \A r \in DOMAIN runs : runs'[r] = runs[r] /\ trainer'[r] = trainer[r]
    <3> HIDE DEF row
    <3>1. Len(trainer) = Len(runs)
      BY DEF TypeOK
    <3>2. /\ runs' \in Seq(Run) /\ Len(runs') = Len(runs) + 1
          /\ runs'[Len(runs) + 1] = row /\ trainer'[Len(runs) + 1] = "none"
          /\ \A r \in 1 .. Len(runs) : runs'[r] = runs[r] /\ trainer'[r] = trainer[r]
      BY <2>1, <2>2, <3>1, RunTypes, AppendProperties
    <3> QED
      BY <3>2, RunTypes, LenProperties
  <2>4. \A r \in DOMAIN runs : runs[r].ds = d => runs[r].state \notin Active
    BY <1>2 DEF Reusable, Active
  <2>5. DOMAIN runs' = DOMAIN runs \cup {n} /\ n \notin DOMAIN runs
    BY <2>3
  <2>6. OneActive'
    BY <2>3, <2>4, <2>5 DEF RunInv, OneActive
  <2>7. RunnersAgree' /\ SucceededRunIsLoadable'
    <3>1. runs'[n].state = "queued"
      BY <2>3
    <3>2. RunnersAgree'
      BY <2>3, <2>5, <3>1 DEF RunInv, RunnersAgree
    <3>3. SucceededRunIsLoadable'
      BY <2>1, <2>3, <2>5, <3>1 DEF RunInv, SucceededRunIsLoadable
    <3> QED
      BY <3>2, <3>3
  <2>8. KeysAgree'
    <3>1. \A u \in Users : tx[u].keys \subseteq DOMAIN runs
      BY <2>3 DEF TypeOK
    <3> QED
      BY <2>1, <2>3, <3>1 DEF RunInv, KeysAgree
  <2> QED
    BY <2>6, <2>7, <2>8 DEF RunInv
<1> QED
  BY <1>1, <1>2

(* The runner acts on its own run, which no revocation has ended while it  *)
(* holds the row.                                                          *)
LEMMA RunnerRuns ==
  ASSUME RunInv, TypeOK, NEW r \in DOMAIN runs,
         Runner(r) \/ LostReply(r) \/ TrainerCrash(r)
  PROVE  RunInv'
<1>1. /\ r \in 1 .. Len(runs) /\ runs[r] \in Run /\ runs[r].ds \in Models
      /\ runs \in [1 .. Len(runs) -> Run] /\ trainer \in [1 .. Len(runs) -> TrainerState]
      /\ DOMAIN runs = 1 .. Len(runs)
  BY RunTypes DEF Run, Models
<1>2. UNCHANGED tx
  BY DEF Runner, Claim, Store, Check, Write, Finish, TrainingFails, LostReply, TrainerCrash
<1>3. /\ DOMAIN runs' = DOMAIN runs
      /\ \A q \in DOMAIN runs \ {r} : runs'[q] = runs[q] /\ trainer'[q] = trainer[q]
  <2>1. CASE Claim(r) \/ Store(r)
    BY <1>1, <2>1 DEF Claim, Store
  <2>2. CASE Check(r) \/ Write(r) \/ TrainerCrash(r)
    BY <1>1, <2>2 DEF Check, Write, TrainerCrash
  <2>3. CASE Finish(r)
    BY <1>1, <2>3 DEF Finish
  <2>4. CASE LostReply(r) \/ TrainingFails(r)
    BY <1>1, <2>4 DEF LostReply, TrainingFails
  <2> QED
    BY <2>1, <2>2, <2>3, <2>4 DEF Runner
<1>4. \A m \in Models : model[m] # "none" => model'[m] # "none"
  <2>1. CASE Finish(r) \/ LostReply(r)
    BY <1>1, <2>1 DEF Finish, LostReply, TypeOK
  <2>2. CASE ~(Finish(r) \/ LostReply(r))
    BY <2>2 DEF Runner, Claim, Store, Check, Write, TrainingFails, TrainerCrash, modelVars
  <2> QED
    BY <2>1, <2>2
<1>5. /\ runs'[r].ds = runs[r].ds
      /\ runs'[r].state \in Active => runs[r].state \in Active
      /\ runs[r].state = "revoked" => runs'[r].state = "revoked"
      /\ trainer'[r] = "writing" => runs'[r].state = "running"
      /\ trainer'[r] \in {"stored", "checked", "writing"} /\ runs'[r].state = "running"
           => runs'[r].object
      /\ runs'[r].state = "succeeded" => trainer'[r] \in {"done", "misled"}
      /\ runs'[r].state = "succeeded" =>
           model'[runs[r].ds] # "none" /\ (runs'[r].object \/ trainer'[r] = "misled")
  <2>1. CASE Claim(r)
    BY <1>1, <2>1 DEF Claim, Active, Run, RunInv, RunnersAgree
  <2>2. CASE Store(r)
    BY <1>1, <1>4, <2>2 DEF Store, Active, Run, RunInv, RunnersAgree, SucceededRunIsLoadable
  <2>3. CASE Check(r)
    BY <1>1, <1>4, <2>3 DEF Check, Active, Run, RunInv, RunnersAgree, SucceededRunIsLoadable
  <2>4. CASE Write(r)
    BY <1>1, <1>4, <2>4 DEF Write, Active, Run, RunInv, RunnersAgree, SucceededRunIsLoadable
  <2>5. CASE Finish(r)
    BY <1>1, <2>5 DEF Finish, Active, Run, RunInv, RunnersAgree, TypeOK
  <2>6. CASE LostReply(r)
    BY <1>1, <2>6 DEF LostReply, Active, Run, RunInv, RunnersAgree, TypeOK
  <2>7. CASE TrainerCrash(r)
    BY <1>1, <1>4, <2>7 DEF TrainerCrash, Active, Run, RunInv, RunnersAgree, SucceededRunIsLoadable
  <2>8. CASE TrainingFails(r)
    <3>1. trainer'[r] = "done" /\ trainer[r] \notin {"done", "misled"}
      BY <1>1, <2>8 DEF TrainingFails
    <3>2. PICK k \in {FALSE, runs[r].object} :
            runs' = [runs EXCEPT ![r].object = k,
                                 ![r].state = IF @ = "running" THEN "failed" ELSE @]
      BY <2>8 DEF TrainingFails
    <3>3. /\ runs'[r].ds = runs[r].ds
          /\ runs'[r].state = IF runs[r].state = "running" THEN "failed" ELSE runs[r].state
      BY <1>1, <3>2 DEF Run
    <3>4. runs[r].state # "succeeded"
      BY <3>1 DEF RunInv, RunnersAgree
    <3> QED
      BY <3>1, <3>3, <3>4 DEF Active
  <2> QED
    BY <2>1, <2>2, <2>3, <2>4, <2>5, <2>6, <2>7, <2>8 DEF Runner
<1>6. OneActive'
  BY <1>3, <1>5 DEF RunInv, OneActive
<1>7. RunnersAgree'
  BY <1>3, <1>5 DEF RunInv, RunnersAgree
<1>8. SucceededRunIsLoadable'
  <2>1. \A q \in DOMAIN runs : runs[q].ds \in Models
    BY <1>1 DEF Run, Models
  <2> QED
    BY <1>3, <1>4, <1>5, <2>1 DEF RunInv, SucceededRunIsLoadable
<1>9. KeysAgree'
  <2>1. \A u \in Users : tx[u].keys \subseteq DOMAIN runs
    BY <1>1 DEF TypeOK
  <2> QED
    BY <1>2, <1>3, <1>5, <2>1 DEF RunInv, KeysAgree
<1> QED
  BY <1>6, <1>7, <1>8, <1>9 DEF RunInv

(* A revocation waits for a runner that holds its run's row; a purge only  *)
(* touches runs that are revoked.                                          *)
LEMMA RevokingRuns ==
  ASSUME RunInv, TypeOK, NEW u \in Users, Revoking(u)
  PROVE  RunInv'
<1>1. /\ runs \in [1 .. Len(runs) -> Run] /\ DOMAIN runs = 1 .. Len(runs)
      /\ \A r \in DOMAIN runs : runs[r] \in Run /\ runs[r].ds \in Models
  BY RunTypes DEF Run, Models
<1>2. UNCHANGED trainer
  BY DEF Revoking, RelabelRead, RevokeSnapshot, RelabelHold, RevokeCommit, RevokeAbort, Purge, runVars
<1>3. tx \in [Users -> Tx(Len(runs))]
  BY TypeParts DEF TxTypes
<1>4. ASSUME UNCHANGED <<runs, model>>, NEW t,
             tx' = [tx EXCEPT ![u] = t],
             \A r \in t.keys : t.pc = "held" /\ r \in t.seen
      PROVE  RunInv'
  BY <1>2, <1>3, <1>4 DEF RunInv, OneActive, RunnersAgree, SucceededRunIsLoadable, KeysAgree
<1>5. CASE \E l \in Labels : RelabelRead(u, l)
  <2>1. PICK l \in Labels : RelabelRead(u, l)
    BY <1>5
  <2> DEFINE t == [NoTx EXCEPT !.pc = "read", !.kind = "relabel", !.prev = label, !.to = l]
  <2>2. t.keys = {} /\ tx' = [tx EXCEPT ![u] = t] /\ UNCHANGED <<runs, model>>
    BY <2>1 DEF RelabelRead, NoTx, runVars, modelVars
  <2> HIDE DEF t
  <2> QED
    BY <1>4, <2>2
<1>6. ASSUME NEW x, NEW D, DOMAIN x = DOMAIN NoTx
      PROVE  \A r \in Holding(x, D).keys : Holding(x, D).pc = "held" /\ r \in Holding(x, D).seen
  BY <1>6 DEF Holding, RunsOf, NoTx
<1>7. CASE RelabelHold(u)
  <2>1. DOMAIN tx[u] = DOMAIN NoTx
    BY <1>3 DEF Tx, NoTx
  <2>2. tx' = [tx EXCEPT ![u] = Holding(tx[u], Affected(u))] /\ UNCHANGED <<runs, model>>
    BY <1>3, <1>7 DEF RelabelHold, runVars, modelVars
  <2> QED
    BY <1>4, <1>6, <2>1, <2>2
<1>8. CASE \E d \in Datasets : RevokeSnapshot(u, d)
  <2>1. PICK d \in Datasets : RevokeSnapshot(u, d)
    BY <1>8
  <2> DEFINE x == [NoTx EXCEPT !.kind = "privacy"]
  <2>2. DOMAIN x = DOMAIN NoTx
    OBVIOUS
  <2>3. tx' = [tx EXCEPT ![u] = Holding(x, {d})] /\ UNCHANGED <<runs, model>>
    BY <2>1 DEF RevokeSnapshot, runVars, modelVars
  <2> HIDE DEF x
  <2> QED
    BY <1>4, <1>6, <2>2, <2>3
<1>9. CASE RevokeAbort(u)
  <2>1. NoTx.keys = {} /\ tx' = [tx EXCEPT ![u] = NoTx] /\ UNCHANGED <<runs, model>>
    BY <1>9 DEF RevokeAbort, NoTx, runVars, modelVars
  <2> QED
    BY <1>4, <2>1
<1>10. CASE RevokeCommit(u)
  <2>1. /\ DOMAIN runs' = DOMAIN runs
        /\ \A r \in DOMAIN runs :
             /\ runs'[r].ds = runs[r].ds /\ runs'[r].object = runs[r].object
             /\ r \in tx[u].seen => runs'[r].state = "revoked" /\ trainer[r] # "writing"
             /\ r \notin tx[u].seen => runs'[r] = runs[r]
    BY <1>1, <1>10 DEF RevokeCommit, Run
  <2>2. \A m \in Models : model[m] # "none" => model'[m] # "none"
    BY <1>10 DEF RevokeCommit, RevokedModel
  <2>3. OneActive' /\ RunnersAgree'
    BY <1>2, <2>1 DEF RunInv, OneActive, RunnersAgree, Active
  <2>4. SucceededRunIsLoadable'
    BY <1>1, <1>2, <2>1, <2>2 DEF RunInv, SucceededRunIsLoadable
  <2>5. tx[u].pc = "held" /\ tx[u].keys \subseteq tx[u].seen
    BY <1>10 DEF RevokeCommit, RunInv, KeysAgree
  <2>6. /\ \A v \in Users \ {u} : tx'[v] = tx[v]
        /\ \/ tx'[u].pc = "purge" /\ tx'[u].keys = tx[u].keys
           \/ tx'[u].keys = {}
    BY <1>3, <1>10 DEF RevokeCommit, NoTx, Tx
  <2>7. \A v \in Users : tx[v].keys \subseteq DOMAIN runs
    BY <1>1, <1>3 DEF Tx
  <2>8. KeysAgree'
    BY <2>1, <2>5, <2>6, <2>7 DEF RunInv, KeysAgree
  <2> QED
    BY <2>3, <2>4, <2>8 DEF RunInv
<1>11. CASE Purge(u)
  <2>1. PICK gone \in {{}, tx[u].keys} :
          runs' = [r \in DOMAIN runs |-> IF r \in gone THEN [runs[r] EXCEPT !.object = FALSE]
                                         ELSE runs[r]]
    BY <1>11 DEF Purge
  <2>2. /\ DOMAIN runs' = DOMAIN runs
        /\ \A r \in DOMAIN runs :
             /\ runs'[r].ds = runs[r].ds /\ runs'[r].state = runs[r].state
             /\ r \notin tx[u].keys => runs'[r] = runs[r]
    BY <1>1, <2>1 DEF Run
  <2>3. \A r \in tx[u].keys : runs[r].state = "revoked"
    BY <1>11 DEF Purge, RunInv, KeysAgree
  <2>4. tx'[u].keys = {} /\ (\A v \in Users \ {u} : tx'[v] = tx[v]) /\ UNCHANGED model
    BY <1>3, <1>11 DEF Purge, NoTx, modelVars
  <2>5. \A v \in Users : tx[v].keys \subseteq DOMAIN runs
    BY <1>1, <1>3 DEF Tx
  <2>6. OneActive' /\ RunnersAgree'
    BY <1>2, <2>2, <2>3 DEF RunInv, OneActive, RunnersAgree
  <2>7. SucceededRunIsLoadable'
    BY <1>2, <2>2, <2>3, <2>4 DEF RunInv, SucceededRunIsLoadable
  <2>8. KeysAgree'
    BY <2>2, <2>4, <2>5 DEF RunInv, KeysAgree
  <2> QED
    BY <2>6, <2>7, <2>8 DEF RunInv
<1> QED
  BY <1>5, <1>7, <1>8, <1>9, <1>10, <1>11 DEF Revoking

(* Every step of Next keeps the training runs in order.                    *)
LEMMA RunNext ==
  ASSUME TypeOK, RunInv, [Next]_vars
  PROVE  RunInv'
<1>1. ASSUME NEW d \in Datasets, RequestInsert(d) PROVE RunInv'
  BY <1>1, RequestRuns
<1>2. ASSUME NEW r \in DOMAIN runs, Runner(r) \/ LostReply(r) \/ TrainerCrash(r) PROVE RunInv'
  BY <1>2, RunnerRuns
<1>3. ASSUME NEW u \in Users, Revoking(u) PROVE RunInv'
  BY <1>3, RevokingRuns
<1>4. ASSUME NEW m \in Models, RegisterModel(m) \/ \E d \in Datasets : ApproveModel(m, d)
      PROVE  RunInv'
  <2>1. UNCHANGED <<runs, trainer, tx>>
    BY <1>4 DEF RegisterModel, ApproveModel, runVars
  <2>2. \A n \in Models : model[n] # "none" => model'[n] # "none"
    BY <1>4 DEF RegisterModel, ApproveModel, TypeOK
  <2> QED
    BY <2>1, <2>2, RunFrame
<1>5. ASSUME \/ UNCHANGED vars
             \/ \E d \in Datasets : \/ BuildRead(d) \/ BuildInsert(d) \/ ApproveSnapshot(d)
                                   \/ RequestRead(d)
             \/ \E m \in Models : CreatePolicy(m)
             \/ \E d \in Datasets, m \in Models : EvaluationRead(d, m) \/ Promote(m, d)
             \/ \E e \in evaluating : EvaluationInsert(e)
             \/ Rollback \/ CanaryPass \/ CanaryFail \/ PausePolicy
      PROVE  UNCHANGED <<runs, trainer, tx, model>>
  BY <1>5 DEF vars, runVars, modelVars, BuildRead, BuildInsert, ApproveSnapshot, RequestRead,
    CreatePolicy, EvaluationRead, Promote, EvaluationInsert, Rollback, CanaryPass, CanaryFail,
    PausePolicy
<1> QED
  BY <1>1, <1>2, <1>3, <1>4, <1>5, RunFrame DEF Next

(* However requests, runners, lost replies, crashes and revocations        *)
(* interleave, one run of a dataset is at work or has succeeded, and a run *)
(* that succeeded keeps the model and the artifact it recorded.            *)
THEOREM RunsAlways == Spec => [](OneRunPerDataset /\ SucceededRunIsLoadable)
<1>1. Init => TypeOK /\ RelabelsName /\ RunInv
  <2>1. Init => RunInv
    BY DEF Init, RunInv, OneActive, RunnersAgree, KeysAgree, SucceededRunIsLoadable, NoTx
  <2>2. Init => TypeOK /\ RelabelsName
    BY LearningAssumption DEF Init, TypeOK, RelabelsName, LearningAssumption, NoTx, NoPolicy
  <2> QED
    BY <2>1, <2>2
<1>2. TypeOK /\ RelabelsName /\ RunInv /\ [Next]_vars => (TypeOK /\ RelabelsName /\ RunInv)'
  BY NextTypes, RunNext, LearningAssumption
<1>3. RunInv => OneRunPerDataset /\ SucceededRunIsLoadable
  BY DEF RunInv, OneActive, Active, OneRunPerDataset
<1> QED
  BY <1>1, <1>2, <1>3, PTL DEF Spec
=============================================================================
