# Formal models of subinary

subinary turns the card messages a household's phones receive into a ledger,
and what the household writes in Slack into a searchable memory. Phones post to
the API (`apps/api`); a worker (`apps/worker`) parses messages, promotes
purchases to transactions, notifies, indexes and extracts; a trainer
(`apps/trainer`) fits models that suggest categories. PostgreSQL holds every
state, Redis/BullMQ the jobs.

This directory holds TLA+ models of the parts whose steps meet each other, the
configurations TLC checks them with, and theorems TLAPS proves about them.
`PROJECT.json` lists the components, runs, mutants, hazards, findings, theorems
and, under `map`, the source lines every definition stands for.

Run, in this directory:

    tlc -workers 2 -config Outbox_safety.cfg MCOutbox.tla     # a run
    tlapm OutboxProofs.tla                                    # a proof

## 1. Inventory

### 1.1 Components that are modelled

| component | state | operations | what must hold |
|---|---|---|---|
| **Ingest** `api/card-sms/card-sms-ingest.service.ts` | `card_sms_events`, `card_sms_ingest_suppressions`, outbox rows | look up by key, look up by text, insert or be absorbed, answer | one event per message, whatever the phone retries; no text is lost |
| **Outbox** `worker/outbox/outbox-dispatcher.service.ts` | `data_events`: published, quarantined, attempts, lease; the queue's jobs | poll: claim, add, mark; back off; quarantine and alert; operator reprocess | no event lost, none recorded as handed over that was not, one outcome |
| **Parse** `worker/processors/card-sms-parse.processor.ts`, `worker/card-sms/*` | the event's verdict (`parseStatus`, `transactionType`) and `updatedAt` | load, read (rules, recipe, model), conditional write; repair; approved recipe | a settled verdict stays; a verdict is never made from a stale row |
| **Review** `api/card-sms/card-sms-review.service.ts` | event and transaction | confirm, dismiss | a person and a job never both decide |
| **Automatic recovery** `worker/card-sms/automatic-recovery.service.ts` | recipe policies | scan, apply | what was scanned is re-checked when applied |
| **Promotion** `worker/promotion/transaction-promotion.service.ts` | `card_transactions`, `budget_alert_state`, push jobs | promote, flag duplicates, queue the push, mark and announce thresholds | one transaction per message; one payment does not count twice; each threshold is announced once |
| **Fence** `worker/promotion/money-runtime.service.ts` | a Redis key, the consumers' pause, a flag | poll, pause, resume | lifting the fence revives everything |
| **Stall check** `worker/notifications/notification-scheduler.service.ts` | `operational_alerts` by event and day | find unpromoted purchases, alert, drive | every lost promotion is reported |
| **Dispatch** `worker/processors/notification-dispatch.processor.ts` | the tokens a job remembers | read recipients, send, record, retry | each device once, no retryable refusal forgotten |
| **Money domain** `packages/transaction-domain` | amounts, links, status of `card_transactions` | record, link, unlink, amend, flag, remove, recalculate | a chain adds up in original units and in won |
| **Slack import** `worker/processors/slack-import.processor.ts` | `slack_messages`, change events | read source and objects, reconcile in one transaction | tombstones stay, later edits win |
| **RAG index** `worker/processors/rag-index.processor.ts` | `chunks`, `chunk_revisions`, lineage, embeddings, projections | prepare, load, publish, embed, project, tombstone | search says what the messages say |
| **Extraction and memory** `worker/processors/memory-extract.processor.ts`, `graph-extract.processor.ts`, `api/memory/*` (approval, rejection, deletion; not memories made, edited or superseded by hand) | candidates, memories, mentions | read a revision, derive, store; approve, reject, delete | what is derived does not outlive its text |
| **Tombstone** `worker/processors/source-tombstone.processor.ts` | source items and everything descended from them | delete objects, delete and scrub rows | what was erased stays empty and offline, whoever had read it |
| **Learning** `api/learning/*`, `packages/database/src/*revocation*`, `apps/trainer` | snapshots, runs, models, evaluations, aliases, canaries, policies | build, approve, train, evaluate, promote, watch, roll back, revoke, purge | what serves rests on approved evidence |

How they interact. Ingest commits an event with its outbox row; Outbox polls
the row and adds a parse job; Parse writes the verdict and calls Promotion in
the same job; Promotion calls the Money domain inside its transaction and adds
push jobs afterwards, which Dispatch takes; the API calls the Money domain for
people; Review and Automatic recovery call Promotion inside their own
transactions; the Stall check calls Promotion outside the queue; the Fence
pauses the consumers and is asked by the Stall check. Slack messages reach RAG
index through change events, and RAG index announces revisions to the
extractors. A changed category in the Transaction API changes a rule, which
revokes the datasets built from it and what was trained on them. There are
several worker and API processes and nothing in memory is shared among them:
they meet in rows, row locks, advisory locks, unique keys, Redis keys and jobs.

What is hard: jobs run in parallel and are delivered more than once; a row
read before an `await` is written after it; a process dies between a commit
and the call that should follow it; locks are taken in several statements;
leases run out under a slow process; polls overlap with what they wait for.
`PROJECT.json` names each such place with its line under `hazards`, and the
property that would catch it, or why none does.

### 1.2 The rest

Everything else is listed under `components` with its status and reason: CRUD
and aggregates over the ledger (budgets, cards, merchants, recurring payments,
analytics), request-scoped checks (auth, household, devices), statement
imports, parsers and statistics (pure functions, covered by fixtures), clients
of model providers, user interfaces. They hold most of the repository's lines
and none of its protocols. Section 6 says what is missing of the parts above.

## 2. Plan

Done, in this order, because what a mistake costs most comes first:

1. **Money**: `MoneyPlan` (pure planning), `MoneyLedger` (abstract: commands
   are atomic), `MoneyChain` (statements, locks, sessions), which implements
   `MoneyLedger`.
2. **Outbox**, then **CardSms**: parse, review, recovery, repair, promotion,
   stall check and the worker's fence, in one module because they meet in one
   row.
3. **CardSmsIngest** with the abstract `Inbox` it implements.
4. **Pushes**: what follows a promotion's commit, composed with the dispatcher.
5. **Knowledge**: messages, index, extraction, approval and withdrawal around
   one chunk.
6. **Learning**: the control plane around one rule and one alias.
7. **Proofs** of the types of all of them, of the refinements, and of every
   safety property a passing run checks.

Left: the operational alert dispatcher (the outbox's lease protocol over
another table); the API's cached fence, which needs real time; the scrubbing of
card events by a withdrawal; the money repair of version-1 rows.

## 3. Modules

A module models one meeting place of processes. A transaction whose locks make
it one is one step; what is read outside it is a step of its own, before it.
`MC*` modules only give constants their values. Operators marked *mutant* are
the plausible mistakes `PROJECT.json` lists: each replaces one definition, and
TLC then finds the property it belongs to violated.

### 3.1 Money: `MoneyPlan`, `MoneyLedger`, `MoneyChain`

`db` maps an id to its row or `Absent`. A row has its original units,
currency, day, rate day (`day`: the day whose rate its won amounts use),
`amount`, `cancelled`, `net`, `status`, `parent`. Ids are numbers, because the
code locks rows in id order.

`MoneyPlan` translates `plan.ts` and `money-math.ts` as pure operators on
`db`: `Krw` (half-up rounding of units times rate, integer arithmetic),
`PlanOk` (over-cancellation, currency, range up to `MaxSafe`),
`PlannedApproval`, `WriteChain`, `Linked`, `Restored`, `Amended`. `MoneyLedger`
applies them in one step: what a caller may believe.

`MoneyChain` runs a command as a session does, at READ COMMITTED: `Begin`
(with the API's check for commands marked `api`), an unlocked read
(`Observe`), row locks on the parents in id order (`LockParent`), the lock of
the cancellation (`LockChild`) and the re-check of what was read
(`Unchanged`), the body (every early return is a rollback), the implicit locks
of updated rows (`LockUpdated`) and `Commit`. `lock` holds row locks and the
unique key of an uncommitted insert; a lock is waited for, never polled.
`Abort` is a crash or a lost connection, at any statement.

Abstractions: only rows of contract version 2 (version-1 rows are refused by
every command here); `approvedAt` is never null (no approval without it is
made); the evidence that two messages are of one payment is the constant
relation `Identity`, of which the code's rules pick the single match; an id
is its own source event, and a deleted id is not used again (uuids). A fx
snapshot is immutable, so a rate is a function of the day.

| run | instance | shows |
|---|---|---|
| `money_links` | 3 sessions, 2 approvals, 2 cancellations, 6 commands: links (also of one cancellation to the other), relinks, unlinks, removals; 193,405 states | `TypeOK`, `NoLockCycle`, and that MoneyChain implements MoneyLedger |
| `money_foreign` | 2 sessions, 4 commands: USD at two rates where 1 + 2 units do not add up in won, amendments, flags, reviews, commands through the API; fairness; 101,916 states | `ChainBalanced`, `LinksSound`, `UnlinkedAwaitsReview`, `EveryCommandEnds` |

Bounds: two approvals and two cancellations are the least at which a relink
has an old and a new parent and a second cancellation competes for the rest;
three sessions are the least for a cycle of more than two; six commands let
two rows of each kind be made and two commands meet on them. `MaxSafe` is
small so that the range check is reached. The theorems of section 5 have no
such bounds.

Fairness: weak, of each session's own statement. PostgreSQL grants a row lock
in order of arrival and `MaxCommands` bounds who can arrive, so a waiter whose
lock is free again and again is not passed over for ever; the client library
returns from each statement.

### 3.2 Outbox: `Outbox`

`row[e]` is the `data_events` row: published, quarantined, `ready`
(`availableAt` has come), attempts, owner and whether its lease is `stale`.
`batch[w]` is what a worker claimed, *as it was read*, `pc[w]` where it is
with the first event of it. `waiting` and `finished` are the unfinished jobs
and the bounded list of finished jobs BullMQ still knows (an `add` with a
known id creates nothing), `created` counts the jobs made.

`Claim` is one transaction (skip locked, ordered, batch limit); `Add`,
`AddFails`, `RouteFails` (the payload breaks the contract, quarantined at
once), `MarkPublished` and `MarkFailed` (conditional on `lockedBy`, backoff or
quarantine with its alert in one transaction) and their failures are steps of
the loop; `Crash` forgets the batch and leaves the lease to `Gone`;
`Reprocess` is the operator. Time is abstract: a lease of a dead or idle
owner expires, and a backoff ends, at any moment. That a live worker is
overtaken by its own lease (`SlowBatch`) counts, as crashes and lost answers
do, against `MaxFaults`.

| run | instance | shows |
|---|---|---|
| `outbox` | 2 workers, 2 events (one that breaks the contract), batch 2, 2 attempts, 2 faults, 1 reprocess; fairness | `TypeOK`, `PublishedWasHanded`, `OneVerdict`, `OwnerIsCurrent`, `PublishedIsFinal`, `EveryEventSettles` |

Bounds: two workers are enough for a takeover and two events for a batch
with an order; two faults let a takeover be followed by a lost answer.
Fairness: the interval timer polls for ever and its calls return (`WF` of each
worker's loop), and time passes. Faults are bounded: nothing is promised of a
database that always fails.

### 3.3 Card messages: `CardSms`

`ev[e]` is the stored verdict with the reader it is `by` (rule, guess of the
model, repair, recipe policy, person), `changes[e]` stands for `updatedAt`,
`tx[e]` for the transaction. A *runner* is a job slot or the scheduler: `pc`
and `task` hold where it is and the snapshot it took. `StartJob` is a delivery
(of the event's job, or of a repair job), `Load` reads the event and branches,
`Write` is the update conditional on the snapshot, `Prepare` is what promotion
reads before its transaction, `Commit` the transaction, `Rejected` its
failure, `Notify` the push; `Crash` may come at each step. `Review` is a
person (who may also approve a recipe), `AutoScan` and `AutoApply` the
automatic recovery, `PlanRepair` the operator's script after a `Deploy` of a
new parser. `Elapse`, `Midnight`, `TickRead` and `TickVisit` are time and the
stall check; `SwitchFence`, `Pause`, `PauseAgain`, `PauseDone`, `Resume` the
fence.

Abstractions: what version `v` of the parser reads in message `e` is the
constant `Reading[v][e]`, and the model or recipe reads it where the code
would ask them; `Twins` are the messages the duplicate check matches,
`Unlinked` those whose card cannot be told (no card lock, no check), `Layout`
those one recipe reads. The promotion's transaction is one step: it holds the
card's row lock, and the unique source event decides the rest. A deploy comes
when no job runs (the container is drained). The stall threshold is abstract;
a stall check does not cross midnight. The API's own fence is not modelled.

| run | instance | shows |
|---|---|---|
| `cards_messages` | 2 twin messages, 2 slots, 4 parser releases that disagree, 2 job runs each, repair, review, recovery | `VerdictIsFinal`, `TransactionIsFounded`, `DuplicateIsFlagged`, `PushOnlyOnArrival` |
| `cards_live` | 2 messages, 3 midnights, a look-back of 2 days, the fence set and removed; fairness | `StalledIsSeen`, `FenceLiftsForGood` |

Bounds: two messages are a pair of twins; two job runs are a delivery and a
redelivery or retry; three midnights outlast a look-back of two days, so a
message can fall out of the window; two changes of the key are one fence.
Fairness: timers fire and their handlers end, minutes pass, and a job that has
begun goes on or crashes. That the queue delivers a job is *not* assumed fair:
`StalledIsSeen` is what the system promises when it does not.

### 3.4 Card-message ingest: `CardSmsIngest`, `Inbox`

A post is a request of a phone: `Post` (its text and hint, the clock at its
arrival), `FindExact` (is there a row of its key?), `FindNear` (one of the same
text in the window, asked only for a post with neither key nor time), `Insert`
(event and outbox row in one transaction, unique per device and key), then
`PutObject` and the answer. An absorbed post goes to `Suppress`, which keeps
its text aside or logs that it could not, and answers. `Lose` cuts a request off at any step;
`Tick` is the server's clock. `Key` is the ladder of the code: the caller's
key, the caller's time, else the window of the clock. `saw` is history: the
rows there were when a request began. A hash is the tuple it is computed from.

`Inbox` is the abstract promise: a post is stored under a key nobody has, or
is answered with the key of a row there is. `Box` is the refinement mapping.

| run | instance | shows |
|---|---|---|
| `ingest` | 3 interchangeable posts; a text without and one with a date; no hint, a time, a key; lookup window 2, key window 3, clock up to 3; one cut-off; 943,424 states | `CallerKeysAreKept`, `RetriesAreFolded`, `NothingVanishes`, and that CardSmsIngest implements Inbox |

Bounds: three posts are a race of two beside a row that is stored; the clock
crosses a window's boundary. `RetriesAreFolded` speaks of posts that *follow*
each other: two at once on both sides of a boundary are two rows (section 4).

### 3.5 Pushes: `Pushes`

Two promotions of one household in one budget month. After its transaction
(`Commit`) each queues its own push (`Notify`), reads the month's usage
(`ReadUsage`), tries to insert the row of each crossed threshold, the highest
first (`Mark`), and queues the push of the first it won (`Announce`);
`PromotionCrash` ends it anywhere. The dispatcher takes one job at a time:
`Start` reads recipients, which may be any subset of the devices that day,
minus those the job remembers; `Send` has the answers `Accepted`, `Refused`
(final), `Unavailable` (to be retried) and `Unrecorded` (the error could not
be stored); `Finish` writes the remembered devices into the job, then ends the
attempt; `WorkerCrash` loses the attempt's memory. `queued`, `pushed` and
`owed` are history.

| run | instance | shows |
|---|---|---|
| `pushes` | promotions of 85 % and 30 %, thresholds 80 and 100, 2 devices, 2 attempts, 1 fault; fairness; 1,122,789 states | `CrossingIsAnnounced`, `PushedOnce`, `NothingOwed`, `QueueDrains` |

Bounds: 85 and 30 cross 80 alone and 100 only together, in either order, so
both promotions may see both thresholds. Fairness: the queue hands a waiting
job out and a promotion that has begun goes on, both short of `MaxFaults`
crashes.

### 3.6 Messages, index, extraction: `Knowledge`

One Slack thread and its chunk. `message[m]` is its row, `rag` the change
events with their jobs, `chunk` and `revs` the chunk and its immutable
revisions with what hangs on each: lineage, embedding, candidate, mention,
what the extractors were told. The API edits and deletes messages;
`ImportRead` reads source and export, `ImportCommit` reconciles in one
transaction (a tombstone stays, a later edit wins, a snapshot deletes what it
lacks) and queues one event for the thread. The event's key is the thread and
the revision of the source: when the same revision is imported again with
effect, the event conflicts with the first and is dropped without an error.
`keyed` holds the sources whose key is taken, `QueueOnce` queues or drops, and
`unheard`, a note of the model, says that a change (or a deletion) was dropped
and no event has followed. The index worker runs a job as `IndexStart` (hide the chunk),
`IndexLoad` (read the messages), `IndexSources` (read their sources),
`IndexPublish` (a revision, its lineage), `IndexEmbed`, `IndexProject`;
`IndexFail` retries later or gives up. `TombstoneSource` is the owner's request
and `PropagateTombstone` its worker; `ExtractRead`, `MemoryCommit`,
`GraphCommit` and `ExtractFail` the extractors; `ApproveRead`,
`ApproveCommit`, `RejectCandidate`, `DeleteMemory` the people.

Abstractions: every transaction over chunks holds the advisory lock of the
workspace, so it is one step; each queue has one consumer. A text is a model
value, its chunk the set of pairs of message and text (no splitting). The
extractor always finds one memory or one mention. `loose` marks memories that
are no longer held to the text they came from: the approval met a revision
already replaced or a candidate already approved, or a person has rejected the
candidate since. The purge of bytes, retention and categories are left out.

| run | instance | shows |
|---|---|---|
| `knowledge_memory` | 1 message, two exports that disagree on its text, one of which may be withdrawn, 1 reviewer, 2 index jobs of 2 attempts, 1 approval, 1 fault; the memory extractor; 2,233,565 states | `MemoryFollowsText`, `ErasedStaysErased` |
| `knowledge_graph` | 2 messages, 2 texts, two exports that are snapshots, one of which lacks a message, edits through the API, 2 index jobs of 2 attempts, 1 fault; the graph extractor; fairness; 540,807 states | `IndexFollowsMessages`, `DeletedTextIsErased`, `MentionsFollowText`, `SearchCatchesUp` |
| `knowledge_withdrawn` | 1 message, 1 source | `WithdrawnSourceIsForgotten` violated (section 4) |

Bounds: two texts are an edit, two jobs one behind another on one chunk, two
messages a chunk that outlives one of them; two exports imported in turn, one
of them again, are a dropped event, of a change in both runs and of a deletion
in `knowledge_graph`. An import whose event would be dropped is not held back
by `MaxJobs`. `Withdrawable` bounds who is withdrawn: in `knowledge_graph`
nobody, so its properties meet withdrawals only in the proofs, and
`knowledge_memory` has no edits through the API, which its imports stand for.
Fairness: the consumers go on, an import that has read commits. No edit,
import or request is fair.

### 3.7 Learning: `Learning`

The control plane around one merchant rule and one alias. A dataset is built
from the rule's category (`BuildRead`, `BuildInsert`, `ApproveSnapshot`); a
request makes a run (`RequestRead`, `RequestInsert`); the runner goes `Claim`,
`Store` (its artifact), `Check`, `Write`, `Finish`, and may lose the answer
(`LostReply`), fail (`TrainingFails`) or be killed (`TrainerCrash`). Models are
registered, evaluated over a dataset, approved (`RegisterModel`,
`EvaluationRead`, `EvaluationInsert`, `ApproveModel`), served (`Promote`,
`Rollback`), watched (`CanaryPass`, `CanaryFail`) and split with another
(`CreatePolicy`, `PausePolicy`). A change of the rule's category
(`RelabelRead`, `RelabelHold`, `RevokeCommit`, `RevokeAbort`) or a person
(`RevokeSnapshot`) revokes datasets and whatever was made from them; `Purge`
deletes artifacts afterwards. `tx[u]` is the transaction a user is in; `torn`
marks a snapshot inserted while a change of the rule was under way.

Abstractions: numbers (metrics, gates, traffic shares) are reduced to whether
the gate passed; models and datasets are symmetric.

| run | instance | shows |
|---|---|---|
| `learning_serving` | 2 datasets, 2 external models, 1 user, 2 categories, 3 revisions of the alias, no runs; 1,259,120 states | `AliasFollowsEvidence`, `CanaryWatchesAlias`, `PolicyFollowsAlias`, `SnapshotsFollowLabels` |
| `learning_training` | 1 dataset, 1 external model, 2 runs, 1 crash; fairness; 361,504 states | `OneRunPerDataset`, `SucceededRunIsLoadable`, `TrainingEnds` |

Bounds: two models are a promotion and its rollback, a third revision comes
after it; two runs are a run and its retry (a dataset has one outstanding request at a
time, so two requests at once are not modelled). The
theorems of section 5 are for every number of users, runs and revisions.
Fairness: a runner goes on. Nobody is assumed to request, approve or promote.

### 3.8 Deadlock

`CHECK_DEADLOCK FALSE` everywhere: each model stops when its bounds are used
up (all commands given, all jobs run). That sessions do not wait for each
other is `NoLockCycle`; that nothing is stuck is the liveness properties.

## 4. What the checks found

**A withdrawn source can come back to search** (`knowledge_withdrawn`; the
finding quotes both sides). docs/architecture/ai-learning-data-pipeline.md:421–424
says the tombstone worker cleans the messages of a withdrawn source,
tombstones its chunks and removes their embeddings. An import reads its source
as not deleted (slack-import.processor.ts:337) and does not look again in the
transaction that writes its messages (:409). The index publishes these
messages without a lineage edge, because it drops deleted sources
(rag-index.processor.ts:443–461); and the tombstone worker, which follows
lineage edges (source-tombstone.processor.ts:220–244), deletes the messages
but leaves the chunk served. TLC's trace has 11 states.

The same gap reaches memory. Proving `MemoryFollowsText`, once stated for every
settled state, failed for a good reason: when an index job has published a
revision and is tried again before it announced it, and the messages, of
withdrawn sources without lineage, are gone by then, a job of the first import
ends without a look at the chunk (rag-index.processor.ts:267–306). The revision
stays current, the extractor is never told, and the memory of an earlier one
lives on. TLC shows it with 2 messages of 2 sources, the 3 attempts of
packages/shared/src/constants.ts:79 and 2 faults, and not in the smaller runs.
The property now says so: after a withdrawal it speaks of chunks with a message
left, and in that form it is proved.

**A change imported a second time may never reach search.**
docs/architecture/ai-learning-data-pipeline.md:148–150 says that after the
first import the created, edited and deleted messages are indexed
incrementally, and :174 that a change set's outbox events are kept idempotent
over retries. The import inserts the event of a thread with the revision of
its source and lets it conflict in silence (slack-import.processor.ts:804–824;
the key is schema.ts:3427–3432). When the job of one source revision runs
again (a retry, a redelivery) after another import or an edit has changed the
thread, it changes the messages again, and the event is dropped: search stays
stale, and the text of messages it deleted stays in the revisions, with no job
queued or failed. `IndexFollowsMessages`, `DeletedTextIsErased`,
`MemoryFollowsText`, `MentionsFollowText` and `SearchCatchesUp` tell this
state apart until the next event of the thread. Without that premise TLC
refutes `IndexFollowsMessages`, `DeletedTextIsErased` and `SearchCatchesUp` in
the instance of `knowledge_graph`. Memories and mentions meet it only in a
corner: an attempt publishes a revision and fails before it announces it, a
dropped deletion leaves no message, and the retry ends without a look at the
chunk.

**Erased text can be written again.** The same document says at :424–425 that
the bodies of past chunks and memories are emptied. `ErasedStaysErased` claims
less, because the code does less. A rag-index job that had read the messages
before a withdrawal publishes their text afterwards, as a revision after the
erased ones (rag-index.processor.ts:476–655 does not look at the messages or
their source again). One that was waiting for the embedding stores the vector
of an erased revision again (:731–735), although it no longer goes online. A
memory that had been deleted before the withdrawal keeps its text
(source-tombstone.processor.ts:467–472 asks for `deletedAt` null). And an
approval that had read its candidate before makes a memory of erased text
afterwards (memory.service.ts:291–304), which is the exception `loose`.

Seen while modelling. The models do what the code does, and the properties are
worded around it; no run is spent on these:

- *A link request can move a link.* The API refuses a linked cancellation with
  409 on a read before the transaction (transaction.service.ts:1000); the
  domain command relinks.
- *A link's target is locked before its type is looked at*
  (transaction-money.service.ts:380, :397; transaction.service.ts:1006–1036). A
  link whose target is a cancellation locks it among the parents; two such
  requests can wait in a circle, and PostgreSQL aborts one. TLC finds the
  circle in `money_links` (link 2 to 4 beside link 4 to 2) when `NoLockCycle`
  does not except groups with such a request.
- *A duplicate mark does not survive a full cancellation*: it is recovered
  from a status the chain has overwritten (transaction-money.service.ts:968).
- *A second quarantine raises no alert*: its key is that of the first
  (outbox-dispatcher.service.ts:266; ADR-0020 says each does).
- *A crash after the promotion loses the push*
  (transaction-promotion.service.ts:512), which docs/product-roadmap.md:218
  lists as closed by the outbox; the budget push likewise, between its row and
  its job (:1154).
- *A recovery skipped under the fence is not driven by the next tick*
  (notification-scheduler.service.ts:538, against the comment at :542): the
  next check of that day stops at the alert's key.
- *The fence does not stop a promotion of the scheduler that has begun*:
  `pause()` waits for consumers only (money-runtime.service.ts:156, against the
  comment at :15).
- *A revocation that meets a run just finishing* can leave the run succeeded
  (database/src/training-run.ts:34; docs/api/learning.md:44 says it stops).
- *Two retries at once on both sides of a window's boundary make two rows*
  (card-sms-ingest.service.ts:292–294, idempotency.ts:167–170).
- *An error that cannot be recorded hides a retry*
  (notification-dispatch.processor.ts:156, against the comment at :177): `NothingOwed` excepts it.

## 5. What is proved

For every value of the constants that satisfies the named assumptions
(`IdsAssumption`, `OutboxAssumption`, `CardSmsAssumption`,
`KnowledgeAssumption`, ...), which TLC evaluates in every run. All theorems
have the form `Spec => []P` unless said otherwise.

**`MoneyChainProofs`**: `TypeCorrect`, which says more than shapes: a row's
amounts stay in `0 .. MaxSafe`, so no chain is ever written with a negative
net or beyond the range. Its lemmas say that each operator of `MoneyPlan` maps
a well-typed ledger for which its check (`PlanOk`, `LinkOk`, ...) holds to a
well-typed ledger. `UnlinkedAwaitsReviewAlways` says of every version of a
row, committed or not, that it waits for review when it is an unlinked
cancellation (`WaitInv`).

**`MoneyLocksProofs`**: the locking of the money domain.
- `ChainBalancedAlways`, `LinksSoundAlways`. A chain's sums are right when
  nothing changed between a session's reads and its commit. `LedgerInv` says
  why that is so: a session past its reads holds what it read or the row is
  gone (`ReadInv`); whatever it will write is under locks it holds, a
  cancellation under its approval's lock too (`WriteInv`); in its own view
  the chains it holds are balanced. `Commit` then changes only chains whose
  approval it holds, and no two sessions hold one.
- `MoneyChainImplementsLedger`: the sessions refine the ledger in which a
  command is one step. `PlanInv` says that what a session is about to commit
  is its command's effect (`Effect`, over every branch of the commands) on the
  committed rows as they are now. An effect reads few rows (`EffectMoves`):
  when two ledgers agree on those, they agree on what it writes. The session
  holds locks on all of them, so the commits of others keep `PlanInv`, and
  its own commit is the ledger's step (`EffectIsLedgerStep`).
- `NobodyIsDeadlocked`, of any commands: what may wait in a circle is told
  apart in `NoLockCycle` itself, not assumed. `OrderInv` says of every session
  whose link target is no cancellation that its locks on approvals are taken
  upwards and cancellations come last. Who waits for a cancellation in an
  update holds its approval, so its holder has all its locks and waits for
  nobody (`HolderAtRest`); so does who was asked to amend a cancellation and
  holds that row alone. Among sessions waiting in a circle the one that waits
  for the highest approval gives the contradiction.

**`OutboxProofs`**: `TypeCorrect`, `PublishedWasHandedCorrect`,
`OneVerdictCorrect`, `PublishedIsFinalCorrect`, `OwnerIsCurrentCorrect`: all
the safety of the run. `Inv` adds that a worker about to mark an event has
handed it over (the claim and the mark are different steps; the copy links
them), that a waiting or retained job was created, and that only an owner
writes and a resolved row has none. `RecordResolves` says what the conditional
update can do to a row; `RowSteps` goes through the actions once.

**`CardSmsProofs`**: `TypeCorrect` and the four properties of
`cards_messages`. What a runner does between its read and its write rests on
`Reliance`: what it read was not settled, what it is to commit is the stored
verdict and a purchase, what it is to push was read by a rule. Others keep
that true because a settled verdict is never rewritten (`KeptVerdicts`), only
a job leaves a purchase unpromoted (`UnpromotedFromJob`), and a repair's
verdict can be told from its pipeline run (`RepairRecorded`).
`VerdictIsFinalCorrect` is `SettledStays` over the steps that write one.

**`CardSmsIngestProofs`**: `IngestTypes`, `CallerKeysAreKeptAlways`,
`RetriesAreFoldedAlways`, `NothingVanishesAlways`, and
`IngestImplementsInbox`: the initial state and every step of the requests map
to the inbox's. `IInv` says of each post (`Sound`) where its row is, that what
absorbs it is a stored row it may be absorbed by, and what it was told.

**`PushesProofs`**: `TypeCorrect`, `QueuedOnce`, `PushedOnceAlways`,
`NothingOwedAlways`, `CrossingIsAnnouncedAlways`. A threshold
a promotion is to announce it alone has marked, and nothing of it was queued
(`CheckInv`); so no job is added twice (`QueueInv`), and what a job remembers
with what its attempt has sent covers every device it reached (`RunInv`).
For the announcement, `CoverInv`: without a fault every crossed threshold is
marked or some promotion has yet to look or still holds it, and the highest,
once marked, is queued or about to be; a promotion that skips a threshold lost
it to one that will queue it. Two facts carry it. The usage never falls when a
promotion is paid: the sum over a finite set is shown to exist, to be unique
and not to depend on the order by taking a smallest set for which it fails. And
usage 0 crosses nothing: thresholds are positive (`PushAssumption`; the code's
are 100 and 80).

**`KnowledgeProofs`**:
- `TypeCorrect`, `ErasedStaysErasedAlways`. What a withdrawal erased has no
  text and no pending candidate, and its last revision is a tombstone
  (`EmptyInv`), so an extractor that may still derive has not read it
  (`ReaderInv`); a live memory that is not loose comes from a later revision
  and is found again from its candidate (`MemoryInv`). A projection puts
  only the current revision of a shown chunk online, and the last erased one
  is a tombstone, under which the chunk is hidden (`OfflineInv`).
- `IndexFollowsMessagesAlways`, `DeletedTextIsErasedAlways`. What holds at
  rest does not hold while jobs run, so `IndexInv` says what the index still
  owes at each of its phases. A line of a deleted message is in a revision, or
  in what the worker has read, only while a job of a deletion is pending that
  did not publish that revision, or such a deletion's event was dropped
  (`ForgetInv`). When no job is pending and no change was dropped, what the
  worker has read past its load is what the messages say, and what it has
  published is current, shown and of that text (`SearchInv`); without
  messages the chunk is buried (`GoneInv`, `TombInv`). That rests on the chunk
  being hidden from a job's start to its publication, while no other job runs
  (`PhaseInv`), and on every change either queueing its job in its own
  transaction or being recorded in `unheard` (`Recorded`, `QueueRecords`,
  `MessageSteps`). Failed and retried jobs, in any order, only make more jobs
  pending.
- `MemoryFollowsTextAlways`, `MentionsFollowTextAlways`. A current revision
  that was not announced will be (`AnnounceInv`). An extractor that is done
  with the current revision has left no candidate, held memory or mention at
  another (`DeriveInv`): it checks that the revision is current in the
  transaction that clears the others, and whatever becomes current later is
  one it is not done with. An approval that was overtaken makes a loose memory.

**`LearningProofs`**: `LearningTypes`, `SnapshotsFollowLabelsAlways`
(`RuleInv`), `ServingAlways` (`ServingInv`: three properties of the alias
together, as each needs the others), `RunsAlways` (`RunInv`: one run of a
dataset is not over, a run and its runner agree, what is to be purged is of
revoked runs).

Only model-checked, as out of the prover's reach: everything under fairness or
with `ENABLED` (`EveryCommandEnds`, `EveryEventSettles`, `StalledIsSeen`,
`FenceLiftsForGood`, `QueueDrains`, `SearchCatchesUp`, `TrainingEnds`), and
induction over data: the one fold a theorem depends on, the month's usage, is
reasoned about through smallest counterexamples instead.

## 6. Not modelled

- External: parsers' text, SQL plans, BullMQ, PostgreSQL, Redis, the push
  service and object storage do what the code relies on (marked `external` in
  the map). Retention, encryption and wording are left out.
- The promotion's amount is `MoneyChain`'s, its occurrence `CardSms`'s, its
  push `Pushes`'s. They share `card_transactions` but are not composed; what
  one assumes of the other is that a promotion calls `createApproval` or
  `createCancellation` once per event in one transaction, which is the unique
  key on the source event.
- The operational alert dispatcher is the outbox's lease protocol over another
  table; the API's money fence is a cache over real time; the repair of
  version-1 rows and the shadow comparison are scripts run once; the scrubbing
  of card events by a withdrawal; the traffic split and the loading of a model
  (the alias is modelled, who reads it is not).
- Pure functions over text and numbers (parsers, tokenizers, statistics,
  budget forecasts), which fixtures cover and a bounded input set would not;
  clients of model providers; and CRUD and aggregates over single rows,
  authentication, settings, web and mobile interfaces. They hold most of the
  repository's lines, and nothing in them has steps that meet.
