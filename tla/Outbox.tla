------------------------------- MODULE Outbox --------------------------------
(***************************************************************************)
(* The transactional outbox: every worker polls data_events, claims a      *)
(* batch under a lease, hands each event to BullMQ, which remembers a      *)
(* bounded number of finished jobs, and records the outcome                *)
(* (apps/worker/src/outbox/outbox-dispatcher.service.ts).  An operator     *)
(* puts quarantined events back (learning-data-control.service.ts).        *)
(*                                                                         *)
(* Time is abstract: a lease expires, and a backoff ends, at any moment;   *)
(* a worker overtaken by its own lease counts as a fault.                  *)
(***************************************************************************)
EXTENDS Naturals, FiniteSets, Sequences

CONSTANTS
  Events,       \* event ids, ordered like (occurredAt, id)
  Invalid,      \* events whose payload breaks the consumer's contract
  Workers,      \* worker processes
  Nobody,       \* lockedBy is null
  Gone,         \* lockedBy names a process that no longer exists
  BatchSize,    \* CLAIM_BATCH_SIZE
  MaxAttempts,  \* MAX_PUBLISH_ATTEMPTS
  Retain,       \* finished jobs BullMQ keeps per queue and outcome
  MaxFaults,    \* bound: crashes, database errors and slow batches
  MaxReprocess  \* bound: times an operator puts an event back

ASSUME OutboxAssumption ==
  /\ Events \subseteq Nat /\ Invalid \subseteq Events
  /\ Nobody \notin Workers /\ Gone \notin Workers /\ Nobody # Gone
  /\ BatchSize \in Nat \ {0} /\ MaxAttempts \in Nat \ {0}
  /\ Retain \in Nat /\ MaxFaults \in Nat /\ MaxReprocess \in Nat

VARIABLES
  row,       \* the data_events row of every event
  batch,     \* what a worker claimed and has not finished, as it was read
  pc,        \* where a worker is with the first event of its batch
  waiting,   \* events with an unfinished job
  finished,  \* retained finished jobs, per outcome, oldest first
  created,   \* number of jobs ever created for an event
  alerts,    \* events with an operational alert
  faults     \* crashes, database errors and slow batches so far

vars == <<row, batch, pc, waiting, finished, created, alerts, faults>>
queueVars == <<waiting, finished, created>>

Row == [exists: BOOLEAN, published: BOOLEAN, quarantined: BOOLEAN,
        ready: BOOLEAN, attempts: 0 .. MaxAttempts,
        owner: Workers \cup {Nobody, Gone}, stale: BOOLEAN,
        reprocessed: 0 .. MaxReprocess]
Copy == [id: Events, attempts: 0 .. MaxAttempts - 1]
Outcomes == {"completed", "failed"}

NewRow == [exists |-> FALSE, published |-> FALSE, quarantined |-> FALSE,
           ready |-> TRUE, attempts |-> 0, owner |-> Nobody, stale |-> FALSE,
           reprocessed |-> 0]

TypeOK ==
  /\ row \in [Events -> Row]
  /\ batch \in [Workers -> SUBSET Copy]
  /\ pc \in [Workers -> {"idle", "add", "mark", "contract", "transient"}]
  /\ waiting \subseteq Events
  /\ finished \in [Outcomes -> Seq(Events)]
  /\ created \in [Events -> Nat]
  /\ alerts \subseteq Events
  /\ faults \in 0 .. MaxFaults

Init ==
  /\ row = [e \in Events |-> NewRow]
  /\ batch = [w \in Workers |-> {}]
  /\ pc = [w \in Workers |-> "idle"]
  /\ waiting = {}
  /\ finished = [o \in Outcomes |-> <<>>]
  /\ created = [e \in Events |-> 0]
  /\ alerts = {}
  /\ faults = 0

-----------------------------------------------------------------------------
(* A domain transaction commits together with its event. *)
Insert(e) ==
  /\ ~row[e].exists
  /\ row' = [row EXCEPT ![e].exists = TRUE]
  /\ UNCHANGED <<batch, pc, queueVars, alerts, faults>>

(* claimPendingEvents: due, unresolved, and unlocked or with an old lease. *)
Due(e) ==
  /\ row[e].exists /\ ~row[e].published /\ ~row[e].quarantined /\ row[e].ready
ClaimableUnlocked(e) == Due(e) /\ row[e].owner = Nobody  \* mutant: no lease
Claimable(e) == Due(e) /\ (row[e].owner = Nobody \/ row[e].stale)

Batch == LET due == {e \in Events : Claimable(e)}
         IN {e \in due : Cardinality({f \in due : f < e}) < BatchSize}

Claim(w) ==
  /\ pc[w] = "idle"
  /\ Batch # {}
  /\ row' = [e \in Events |->
               IF e \in Batch THEN [row[e] EXCEPT !.owner = w, !.stale = FALSE]
               ELSE row[e]]
  /\ batch' = [batch EXCEPT
                 ![w] = {[id |-> e, attempts |-> row[e].attempts] : e \in Batch}]
  /\ pc' = [pc EXCEPT ![w] = "add"]
  /\ UNCHANGED <<queueVars, alerts, faults>>

-----------------------------------------------------------------------------
(* The events of a batch are handled one after the other, in claim order. *)
Current(w) == CHOOSE c \in batch[w] : \A d \in batch[w] : c.id <= d.id

NextEvent(w) ==
  LET rest == batch[w] \ {Current(w)} IN
  /\ batch' = [batch EXCEPT ![w] = rest]
  /\ pc' = [pc EXCEPT ![w] = IF rest = {} THEN "idle" ELSE "add"]

(* A job id that BullMQ still knows, in whatever state, is not added again. *)
Retained == waiting \cup UNION {{finished[o][i] : i \in DOMAIN finished[o]} :
                                o \in Outcomes}
QueueAdd(e) ==
  IF e \in Retained THEN UNCHANGED <<waiting, created>>
  ELSE /\ waiting' = waiting \cup {e}
       /\ created' = [created EXCEPT ![e] = @ + 1]

Add(w) ==
  LET e == Current(w).id IN
  /\ pc[w] = "add" /\ e \notin Invalid
  /\ QueueAdd(e)
  /\ pc' = [pc EXCEPT ![w] = "mark"]
  /\ UNCHANGED <<row, batch, finished, alerts, faults>>

(* resolveOutboxQueueRoute throws an OutboxPayloadError. *)
RouteFails(w) ==
  /\ pc[w] = "add" /\ Current(w).id \in Invalid
  /\ pc' = [pc EXCEPT ![w] = "contract"]
  /\ UNCHANGED <<row, batch, queueVars, alerts, faults>>

AddFailsUnseen(w) ==   \* mutant: the promise of the add is not awaited
  /\ pc[w] = "add" /\ Current(w).id \notin Invalid
  /\ pc' = [pc EXCEPT ![w] = "mark"]
  /\ UNCHANGED <<row, batch, queueVars, alerts, faults>>
(* Redis answers with an error, or the answer to a successful add is lost. *)
AddFails(w) ==
  LET e == Current(w).id IN
  /\ pc[w] = "add" /\ e \notin Invalid
  /\ QueueAdd(e) \/ UNCHANGED <<waiting, created>>
  /\ pc' = [pc EXCEPT ![w] = "transient"]
  /\ UNCHANGED <<row, batch, finished, alerts, faults>>

-----------------------------------------------------------------------------
(* The result is recorded only while lockedBy is still this process. *)
RecordPublished(w) ==
  LET c == Current(w) IN
  IF row[c.id].owner = w
  THEN row' = [row EXCEPT ![c.id].published = TRUE,
                          ![c.id].attempts = c.attempts + 1,
                          ![c.id].owner = Nobody, ![c.id].stale = FALSE]
  ELSE UNCHANGED row

MarkPublishedAny(w) ==   \* mutant: the update does not look at lockedBy
  /\ pc[w] = "mark"
  /\ row' = [row EXCEPT ![Current(w).id].published = TRUE,
                        ![Current(w).id].owner = Nobody]
  /\ NextEvent(w)
  /\ UNCHANGED <<queueVars, alerts, faults>>
MarkPublished(w) ==
  /\ pc[w] = "mark"
  /\ RecordPublished(w)
  /\ NextEvent(w)
  /\ UNCHANGED <<queueVars, alerts, faults>>

Fault == faults < MaxFaults /\ faults' = faults + 1

(* The database reports an error, having committed the update or not; the  *)
(* catch block treats the event as failed.                                 *)
MarkPublishedFails(w) ==
  /\ pc[w] = "mark"
  /\ RecordPublished(w) \/ UNCHANGED row
  /\ pc' = [pc EXCEPT ![w] = "transient"]
  /\ Fault
  /\ UNCHANGED <<batch, queueVars, alerts>>

(* A broken contract or the last attempt quarantines the event and stores  *)
(* an alert in the same transaction, unless the event already has one.     *)
QuarantinesLate(w) ==   \* mutant: off by one
  pc[w] = "contract" \/ Current(w).attempts >= MaxAttempts
Quarantines(w) == pc[w] = "contract" \/ Current(w).attempts + 1 >= MaxAttempts

RecordFailureAny(w) ==   \* mutant: the update does not look at lockedBy
  LET c == Current(w) IN
  /\ row' = [row EXCEPT ![c.id].attempts = c.attempts + 1,
                        ![c.id].ready = Quarantines(w),
                        ![c.id].quarantined = Quarantines(w),
                        ![c.id].owner = Nobody, ![c.id].stale = FALSE]
  /\ alerts' = IF Quarantines(w) THEN alerts \cup {c.id} ELSE alerts
RecordFailure(w) ==
  LET c == Current(w) IN
  IF row[c.id].owner = w
  THEN /\ row' = [row EXCEPT ![c.id].attempts = c.attempts + 1,
                             ![c.id].ready = Quarantines(w),
                             ![c.id].quarantined = Quarantines(w),
                             ![c.id].owner = Nobody, ![c.id].stale = FALSE]
       /\ alerts' = IF Quarantines(w) THEN alerts \cup {c.id} ELSE alerts
  ELSE UNCHANGED <<row, alerts>>

MarkFailed(w) ==
  /\ pc[w] \in {"contract", "transient"}
  /\ RecordFailure(w)
  /\ NextEvent(w)
  /\ UNCHANGED <<queueVars, faults>>

(* markFailed itself throws: the poll ends and the rest of the batch stays *)
(* locked until the lease expires.                                         *)
Abandon(w) == batch' = [batch EXCEPT ![w] = {}] /\ pc' = [pc EXCEPT ![w] = "idle"]

MarkFailedFails(w) ==
  /\ pc[w] \in {"contract", "transient"}
  /\ RecordFailure(w) \/ UNCHANGED <<row, alerts>>
  /\ Abandon(w)
  /\ Fault
  /\ UNCHANGED queueVars

(* The process dies; its successor has another instance id. *)
Crash(w) ==
  /\ row' = [e \in Events |-> IF row[e].owner = w
                              THEN [row[e] EXCEPT !.owner = Gone] ELSE row[e]]
  /\ Abandon(w)
  /\ Fault
  /\ UNCHANGED <<queueVars, alerts>>

-----------------------------------------------------------------------------
(* The lease of an event that nobody handles any more runs out. *)
Handled(e) == row[e].owner \in Workers
              /\ \E c \in batch[row[e].owner] : c.id = e

LeaseExpires(e) ==
  /\ row[e].owner # Nobody /\ ~row[e].stale /\ ~Handled(e)
  /\ row' = [row EXCEPT ![e].stale = TRUE]
  /\ UNCHANGED <<batch, pc, queueVars, alerts, faults>>

(* A worker needs longer than the lease for its batch. *)
SlowBatch(e) ==
  /\ Handled(e) /\ ~row[e].stale
  /\ row' = [row EXCEPT ![e].stale = TRUE]
  /\ Fault
  /\ UNCHANGED <<batch, pc, queueVars, alerts>>

BackoffEnds(e) ==
  /\ ~row[e].ready
  /\ row' = [row EXCEPT ![e].ready = TRUE]
  /\ UNCHANGED <<batch, pc, queueVars, alerts, faults>>

ReprocessAnyPending(e) ==   \* mutant: also of events that are not quarantined
  /\ row[e].exists /\ ~row[e].published
  /\ row[e].reprocessed < MaxReprocess
  /\ row' = [row EXCEPT ![e].attempts = 0, ![e].ready = TRUE,
                        ![e].quarantined = FALSE, ![e].reprocessed = @ + 1]
  /\ UNCHANGED <<batch, pc, queueVars, alerts, faults>>
Reprocess(e) ==
  /\ row[e].quarantined /\ ~row[e].published
  /\ row[e].reprocessed < MaxReprocess
  /\ row' = [row EXCEPT ![e].attempts = 0, ![e].ready = TRUE,
                        ![e].owner = Nobody, ![e].stale = FALSE,
                        ![e].quarantined = FALSE, ![e].reprocessed = @ + 1]
  /\ UNCHANGED <<batch, pc, queueVars, alerts, faults>>

(* A consumer finishes a job; the oldest finished job may be forgotten. *)
JobEnds(e, o) ==
  LET done == Append(finished[o], e) IN
  /\ e \in waiting
  /\ waiting' = waiting \ {e}
  /\ finished' = [finished EXCEPT
                    ![o] = IF Len(done) > Retain THEN Tail(done) ELSE done]
  /\ UNCHANGED <<row, batch, pc, created, alerts, faults>>

-----------------------------------------------------------------------------
Poll(w) == \/ Claim(w) \/ Add(w) \/ RouteFails(w) \/ AddFails(w)
           \/ MarkPublished(w) \/ MarkFailed(w)
Time(e) == LeaseExpires(e) \/ BackoffEnds(e)

Next ==
  \/ \E w \in Workers : Poll(w) \/ MarkPublishedFails(w)
                         \/ MarkFailedFails(w) \/ Crash(w)
  \/ \E e \in Events : \/ Insert(e) \/ Time(e) \/ SlowBatch(e) \/ Reprocess(e)
                       \/ \E o \in Outcomes : JobEnds(e, o)

Spec == Init /\ [][Next]_vars

(* The interval timer keeps polling, calls return, and time passes. *)
FairSpec == /\ Spec
            /\ \A w \in Workers : WF_vars(Poll(w))
            /\ \A e \in Events : WF_vars(Time(e))

-----------------------------------------------------------------------------
(* An event counts as published only after its job was created, whichever  *)
(* worker recorded it and whatever answers were lost (dispatchPending).    *)
PublishedWasHanded == \A e \in Events : row[e].published => created[e] > 0

(* A row is never both published and quarantined, and a resolved row is    *)
(* not leased to anybody (data_events_terminal_check; markPublished and    *)
(* markFailed of a worker that has lost its lease change nothing).         *)
OneVerdict ==
  \A e \in Events : row[e].published \/ row[e].quarantined =>
    row[e].published # row[e].quarantined /\ row[e].owner = Nobody

(* A worker that still owns a row knows its retry count, so that the       *)
(* budget of attempts is neither reset nor skipped by a takeover.          *)
OwnerIsCurrent ==
  \A w \in Workers : \A c \in batch[w] :
    row[c.id].owner = w => row[c.id].attempts = c.attempts

(* Nothing a slow worker does changes an event that was published. *)
PublishedIsFinal ==
  [][\A e \in Events : row[e].published => row'[e] = row[e]]_vars

(* Every event is published or quarantined in the end: crashes, lost       *)
(* answers and expired leases only delay it.                               *)
EveryEventSettles ==
  \A e \in Events :
    row[e].exists ~> (row[e].published \/ row[e].quarantined)
=============================================================================
