----------------------------- MODULE MoneyChain ------------------------------
(***************************************************************************)
(* The v2 money commands as database sessions run them, one statement at a *)
(* time at READ COMMITTED: an unlocked read of the row, row locks on the   *)
(* parents in id order, a row lock on the cancellation, the checks and the *)
(* plan, the implicit locks of the other rows it updates, and the commit   *)
(* (packages/transaction-domain/src/transaction-money.service.ts).         *)
(* Commands marked api first pass the checks of the API's                  *)
(* transaction.service.ts, made on an earlier read without a lock.         *)
(***************************************************************************)
EXTENDS MoneyPlan

CONSTANTS
  Sessions,     \* database sessions of the API and worker processes
  Free,         \* owner of a row that nobody has locked
  MaxCommands   \* bound: commands started in a behaviour

ASSUME SessionAssumption == Free \notin Sessions /\ MaxCommands \in Nat

VARIABLES
  db,       \* committed row of every id
  deleted,  \* ids whose row was deleted: a uuid is never used again
  lock,     \* session that holds the lock of a row or of its unique key
  pc,       \* next statement of a session
  cmd,      \* command a session executes
  seen,     \* parent a session read before it locked (or the matched approval)
  todo,     \* rows it still has to lock, lowest id first
  write,    \* uncommitted row versions of a session
  started   \* number of commands started

vars == <<db, deleted, lock, pc, cmd, seen, todo, write, started>>
sessionVars == <<pc, cmd, seen, todo, write>>

Labels == {"idle", "observe", "insert", "match", "parents", "child", "body",
           "update"}
NoWrites == [i \in Ids |-> Keep]
Creates == {"createApproval", "createCancellation"}

TypeOK ==
  /\ db \in [Ids -> Row \cup {Absent}]
  /\ deleted \subseteq Ids
  /\ lock \in [Ids -> Sessions \cup {Free}]
  /\ pc \in [Sessions -> Labels]
  /\ cmd \in [Sessions -> Commands]
  /\ seen \in [Sessions -> Ids \cup {None}]
  /\ todo \in [Sessions -> SUBSET Ids]
  /\ write \in [Sessions -> [Ids -> Row \cup {Absent, Keep}]]
  /\ started \in 0 .. MaxCommands

Init ==
  /\ db = [i \in Ids |-> Absent]
  /\ deleted = {}
  /\ lock = [i \in Ids |-> Free]
  /\ pc = [s \in Sessions |-> "idle"]
  /\ cmd \in [Sessions -> {CHOOSE k \in Commands : TRUE}]
  /\ seen = [s \in Sessions |-> None]
  /\ todo = [s \in Sessions |-> {}]
  /\ write = [s \in Sessions |-> NoWrites]
  /\ started = 0

-----------------------------------------------------------------------------
(* Mutant of Close: the transaction ends without releasing its locks. *)
CloseKeepingLocks(s) ==
  /\ pc' = [pc EXCEPT ![s] = "idle"]
  /\ cmd' = [cmd EXCEPT ![s] = CHOOSE k \in Commands : TRUE]
  /\ seen' = [seen EXCEPT ![s] = None]
  /\ todo' = [todo EXCEPT ![s] = {}]
  /\ write' = [write EXCEPT ![s] = NoWrites]
  /\ UNCHANGED lock

(* The end of a transaction releases its locks and forgets what it read.   *)
Close(s) ==
  /\ lock' = [i \in Ids |-> IF lock[i] = s THEN Free ELSE lock[i]]
  /\ pc' = [pc EXCEPT ![s] = "idle"]
  /\ cmd' = [cmd EXCEPT ![s] = CHOOSE k \in Commands : TRUE]
  /\ seen' = [seen EXCEPT ![s] = None]
  /\ todo' = [todo EXCEPT ![s] = {}]
  /\ write' = [write EXCEPT ![s] = NoWrites]

(* A refused command, or one with nothing to do, ends without a write. *)
Rollback(s) == Close(s) /\ UNCHANGED <<db, deleted, started>>

(* The plan is computed: lock what it updates, then commit. *)
Prepare(s, image, touched) ==
  /\ write' = [write EXCEPT ![s] =
                 [i \in Ids |-> IF i \in touched THEN image[i] ELSE Keep]]
  /\ todo' = [todo EXCEPT ![s] = {i \in touched : lock[i] # s}]
  /\ pc' = [pc EXCEPT ![s] = "update"]
  /\ UNCHANGED <<db, deleted, lock, cmd, seen, started>>

PrepareIf(s, ok, image, touched) ==
  IF ok THEN Prepare(s, image, touched) ELSE Rollback(s)

Goto(s, label) == pc' = [pc EXCEPT ![s] = label]
At(s, label, ops) == pc[s] = label /\ cmd[s].op \in ops

-----------------------------------------------------------------------------
(* transaction.service.ts: what the API checks before it calls the domain. *)
ApiAccepts(k) ==
  /\ Present(db, k.id)
  /\ k.op = "link" => db[k.id].parent = None
  /\ k.op = "amend" =>
       /\ k.id \in Approvals
       /\ db[k.id].cur = "KRW"
       /\ "units" \in k.changes => db[k.id].cancelled = 0
  /\ k.op = "setReviewFlag" /\ k.flag = NoFlag => db[k.id].status \in Flags

(* The id of a row to act on comes from a committed read, the id of a row  *)
(* to create is new or is that of an event promoted before.                *)
Begin(s, k) ==
  /\ pc[s] = "idle" /\ started < MaxCommands
  /\ IF k.op \in Creates THEN k.id \notin deleted
     ELSE Present(db, k.id)
  /\ k.to # None => Present(db, k.to)
  /\ k.api => ApiAccepts(k)
  /\ cmd' = [cmd EXCEPT ![s] = k]
  /\ Goto(s, IF k.op \in Creates THEN "insert" ELSE "observe")
  /\ started' = started + 1
  /\ UNCHANGED <<db, deleted, lock, seen, todo, write>>

(* The first loadRow of the domain, without a lock.  A row that is gone or *)
(* of the wrong type ends the command.                                     *)
RightType(k) ==
  k.op \in {"link", "unlink", "removeCancellation"} => k.id \in Cancellations

ParentsToLock(k) ==
  CASE k.op = "link" -> {db[k.id].parent, k.to} \ {None}
    [] k.op \in {"amend", "recalculate"} -> {k.id}
    [] OTHER -> IF k.id \in Approvals THEN {k.id}
                ELSE {db[k.id].parent} \ {None}

Observe(s) ==
  /\ pc[s] = "observe"
  /\ IF Present(db, cmd[s].id) /\ RightType(cmd[s])
     THEN /\ seen' = [seen EXCEPT ![s] = db[cmd[s].id].parent]
          /\ todo' = [todo EXCEPT ![s] = ParentsToLock(cmd[s])]
          /\ Goto(s, "parents")
          /\ UNCHANGED <<db, deleted, lock, cmd, write, started>>
     ELSE Rollback(s)

-----------------------------------------------------------------------------
(* SELECT ... FOR UPDATE takes no lock when the row does not exist. *)
Acquire(s, i) ==
  IF Present(db, i)
  THEN lock[i] \in {Free, s} /\ lock' = [lock EXCEPT ![i] = s]
  ELSE UNCHANGED lock

Lowest(ids) == CHOOSE i \in ids : \A j \in ids : i <= j

LockAny(s) ==   \* mutant: the locks are taken in no particular order
  \E i \in todo[s] :
    /\ Acquire(s, i)
    /\ todo' = [todo EXCEPT ![s] = @ \ {i}]
    /\ UNCHANGED <<db, deleted, pc, cmd, seen, write, started>>
LockNext(s) ==
  /\ Acquire(s, Lowest(todo[s]))
  /\ todo' = [todo EXCEPT ![s] = @ \ {Lowest(todo[s])}]
  /\ UNCHANGED <<db, deleted, pc, cmd, seen, write, started>>

LockParent(s) == pc[s] = "parents" /\ todo[s] # {} /\ LockNext(s)

ParentsLocked(s) ==
  /\ pc[s] = "parents" /\ todo[s] = {}
  /\ Goto(s, IF cmd[s].id \in Cancellations THEN "child" ELSE "body")
  /\ UNCHANGED <<db, deleted, lock, cmd, seen, todo, write, started>>

(* The cancellation is locked after every parent. *)
LockChild(s) ==
  /\ pc[s] = "child"
  /\ Acquire(s, cmd[s].id)
  /\ Goto(s, "body")
  /\ UNCHANGED <<db, deleted, cmd, seen, todo, write, started>>

(* An UPDATE of a row the session has not locked waits for the row's lock. *)
LockUpdated(s) == pc[s] = "update" /\ todo[s] # {} /\ LockNext(s)

(* An UPDATE or DELETE of a row that is gone changes nothing. *)
Effective(s, i) ==
  /\ write[s][i] # Keep
  /\ Present(db, i) \/ (cmd[s].op \in Creates /\ i = cmd[s].id)

Commit(s) ==
  /\ pc[s] = "update" /\ todo[s] = {}
  /\ db' = [i \in Ids |-> IF Effective(s, i) THEN write[s][i] ELSE db[i]]
  /\ deleted' = deleted \cup
       {i \in Ids : Effective(s, i) /\ write[s][i] = Absent}
  /\ Close(s)
  /\ UNCHANGED started

(* The connection or the process is lost; the database rolls back. *)
Abort(s) == pc[s] # "idle" /\ Rollback(s)

-----------------------------------------------------------------------------
(* INSERT ... ON CONFLICT DO NOTHING on the source event: it waits for a   *)
(* concurrent insert of the same event, and does nothing if that committed.*)
InsertApproval(s) ==
  LET k == cmd[s] IN
  /\ At(s, "insert", {"createApproval"})
  /\ lock[k.id] = Free
  /\ IF ~Present(db, k.id) /\ k.id \notin deleted
        /\ ApprovalOk(db, k.id, k.units, k.cur, k.at)
     THEN /\ lock' = [lock EXCEPT ![k.id] = s]
          /\ write' = [write EXCEPT ![s] = [@ EXCEPT ![k.id] =
               WithApproval(db, k.id, k.units, k.cur, k.at, k.flag)[k.id]]]
          /\ Goto(s, "update")
          /\ UNCHANGED <<db, deleted, cmd, seen, todo, started>>
     ELSE Rollback(s)

InsertCancellation(s) ==
  LET k == cmd[s] IN
  /\ At(s, "insert", {"createCancellation"})
  /\ lock[k.id] = Free
  /\ IF ~Present(db, k.id) /\ k.id \notin deleted
        /\ Convertible(k.units, k.cur, k.at)
     THEN /\ lock' = [lock EXCEPT ![k.id] = s]
          /\ write' = [write EXCEPT ![s] = [@ EXCEPT ![k.id] =
                         NewCancellation(k.units, k.cur, k.at)]]
          /\ Goto(s, "match")
          /\ UNCHANGED <<db, deleted, cmd, seen, todo, started>>
     ELSE Rollback(s)

(* The candidates are read without locks; only a unique one is locked. *)
Matches(s) ==
  LET k == cmd[s] IN
  IF k.to # None THEN {a \in {k.to} : Present(db, a)}
  ELSE Candidates(db, k.id, write[s][k.id])

MatchApproval(s) ==
  /\ pc[s] = "match"
  /\ IF Cardinality(Matches(s)) = 1
     THEN /\ seen' = [seen EXCEPT ![s] = CHOOSE a \in Matches(s) : TRUE]
          /\ todo' = [todo EXCEPT ![s] = Matches(s)]
          /\ Goto(s, "parents")
     ELSE /\ Goto(s, "update")
          /\ UNCHANGED <<seen, todo>>
  /\ UNCHANGED <<db, deleted, lock, cmd, write, started>>

(* applyLink, on the committed rows and the session's own insert.  A       *)
(* refusal rolls the insert back as well.                                  *)
OwnView(s) == [i \in Ids |-> IF write[s][i] = Keep THEN db[i] ELSE write[s][i]]

LinkInserted(s) ==
  LET d == OwnView(s) IN
  /\ At(s, "body", {"createCancellation"})
  /\ PrepareIf(s, LinkOk(d, cmd[s].id, None, seen[s]),
               Linked(d, cmd[s].id, None, seen[s]),
               LinkTouched(d, cmd[s].id, None, seen[s]))

-----------------------------------------------------------------------------
(* The cancellation is still there and its parent is the one locked before. *)
UnchangedOrMoved(s) == Present(db, cmd[s].id)   \* mutant: stale parent kept
Unchanged(s) ==
  /\ cmd[s].id \in Cancellations /\ Present(db, cmd[s].id)
  /\ db[cmd[s].id].parent = seen[s]

LinkCancellation(s) ==
  LET k == cmd[s] IN
  /\ At(s, "body", {"link"})
  /\ PrepareIf(s, Unchanged(s) /\ LinkOk(db, k.id, seen[s], k.to),
               Linked(db, k.id, seen[s], k.to),
               LinkTouched(db, k.id, seen[s], k.to))

UnlinkCancellation(s) ==
  LET c == cmd[s].id d == Detached(db, c) IN
  /\ At(s, "body", {"unlink"})
  /\ PrepareIf(s, Unchanged(s) /\ seen[s] # None /\ RestoreOk(db, d, c),
               Restored(db, d, c), RestoreTouched(db, d, c))

RemoveCancellation(s) ==
  LET c == cmd[s].id d == Erased(db, c) IN
  /\ At(s, "body", {"removeCancellation", "removeTransaction"})
  /\ c \in Cancellations
  /\ PrepareIf(s, Unchanged(s) /\ RestoreOk(db, d, c),
               Restored(db, d, c), RestoreTouched(db, d, c))

RemoveApproval(s) ==
  LET a == cmd[s].id IN
  /\ At(s, "body", {"removeTransaction"})
  /\ a \in Approvals
  /\ PrepareIf(s, Present(db, a) /\ Children(db, a) = {},
               Erased(db, a), {a})

Reviewable(i, flag) == flag = NoFlag => db[i].status \in Flags

FlagApproval(s) ==
  LET k == cmd[s] IN
  /\ At(s, "body", {"setReviewFlag"})
  /\ k.id \in Approvals
  /\ PrepareIf(s, Present(db, k.id) /\ Reviewable(k.id, k.flag)
                    /\ RecalcOk(db, k.id),
               Recalculate(db, k.id, k.flag, FALSE), {k.id})

FlagCancellation(s) ==
  LET k == cmd[s] IN
  /\ At(s, "body", {"setReviewFlag"})
  /\ k.id \in Cancellations
  /\ PrepareIf(s, Unchanged(s) /\ Reviewable(k.id, k.flag),
               Flagged(db, k.id, k.flag), {k.id})

AmendApprovalAlone(s) ==   \* mutant: the children keep their old rate
  LET k == cmd[s] IN
  /\ At(s, "body", {"amend"})
  /\ PrepareIf(s, Present(db, k.id) /\ k.id \in Approvals /\ AmendOk(db, k),
               Amended(db, k), {k.id})

AmendApproval(s) ==
  LET k == cmd[s] IN
  /\ At(s, "body", {"amend"})
  /\ PrepareIf(s, Present(db, k.id) /\ k.id \in Approvals /\ AmendOk(db, k),
               Amended(db, k), {k.id} \cup Children(db, k.id))

RecalculateChain(s) ==
  LET a == cmd[s].id IN
  /\ At(s, "body", {"recalculate"})
  /\ PrepareIf(s, Present(db, a) /\ a \in Approvals /\ RecalcOk(db, a),
               Recalculated(db, a), {a} \cup Children(db, a))

-----------------------------------------------------------------------------
Step(s) ==
  \/ Observe(s) \/ LockParent(s) \/ ParentsLocked(s) \/ LockChild(s)
  \/ InsertApproval(s) \/ InsertCancellation(s) \/ MatchApproval(s)
  \/ LinkInserted(s) \/ LinkCancellation(s) \/ UnlinkCancellation(s)
  \/ RemoveCancellation(s) \/ RemoveApproval(s)
  \/ FlagApproval(s) \/ FlagCancellation(s)
  \/ AmendApproval(s) \/ RecalculateChain(s)
  \/ LockUpdated(s) \/ Commit(s)

Next == \E s \in Sessions :
  \/ \E k \in Commands : Begin(s, k)
  \/ Step(s)
  \/ Abort(s)

Spec == Init /\ [][Next]_vars

(* A session runs its next statement when the database lets it: Postgres   *)
(* grants a row lock in arrival order, so a waiter is not passed over.     *)
FairSpec == Spec /\ \A s \in Sessions : WF_vars(Step(s))

-----------------------------------------------------------------------------
(* Every committed approval counts exactly the cancellations linked to it, *)
(* whatever interleaving of links, removals and amendments led there: the  *)
(* KRW columns add up, a full cancellation in original units nets exactly  *)
(* zero, and the status says how much is left (writeChain, v2_approval_sum,*)
(* ADR-0027 par. 4).                                                       *)
ChainBalanced ==
  \A a \in Approvals : Present(db, a) =>
    LET r == db[a]
        left == r.units - CancelledUnits(db, a)
    IN /\ left >= 0
       /\ r.amount = Krw(r.units, r.cur, r.day)
       /\ r.amount = r.cancelled + r.net /\ r.cancelled >= 0
       /\ r.net = IF left = 0 THEN 0 ELSE Krw(left, r.cur, r.day)
       /\ r.status \in IF Children(db, a) = {} THEN Flags \cup {"approved"}
                       ELSE IF left = 0 THEN {"cancelled"}
                       ELSE IF left < r.units THEN {"partially_cancelled"}
                       ELSE {"approved"}

(* A linked cancellation has a committed approval of its own household and *)
(* currency, and is shown at the exchange rate of that approval's day      *)
(* (removeTransaction's child check, applyLink, ADR-0027 par. 4).          *)
LinksSound ==
  \A c \in Cancellations : Present(db, c) /\ db[c].parent # None =>
    LET a == db[c].parent IN
    /\ Present(db, a)
    /\ House[a] = House[c]
    /\ db[c].cur = db[a].cur /\ db[c].day = db[a].day
    /\ db[c].amount = Krw(db[c].units, db[a].cur, db[a].day)

(* A cancellation never counts by itself, and one without an approval      *)
(* always waits for a person (createCancellation, unlinkCancellation,      *)
(* setReviewFlag): it is never silently settled.                           *)
UnlinkedAwaitsReview ==
  \A c \in Cancellations : Present(db, c) =>
    /\ db[c].net = 0 /\ db[c].cancelled = 0
    /\ db[c].parent = None => db[c].status \in Flags
    /\ db[c].parent # None => db[c].status \in {"approved", "duplicate_suspected"}

(* The rows a session is blocked on; FOR UPDATE ignores a row that is gone *)
(* while an insert also waits for the unique key of an uncommitted row.    *)
Wants(s) ==
  CASE pc[s] = "insert" -> {cmd[s].id}
    [] pc[s] = "child" -> {i \in {cmd[s].id} : Present(db, i)}
    [] pc[s] \in {"parents", "update"} /\ todo[s] # {} ->
         {i \in {Lowest(todo[s])} : Present(db, i)}
    [] OTHER -> {}
WaitsFor(s) == {lock[i] : i \in Wants(s)} \ {Free, s}

(* No group of sessions waits for itself: parents are locked in id order   *)
(* and the cancellation after them (plan.ts orderedLockIds, lockInOrder,   *)
(* lockCancellationForMutation).  Told apart is a group with a request to  *)
(* link to a cancellation: the target is locked as a parent before its     *)
(* type is looked at (transaction-money.service.ts:380, 397), and two such *)
(* requests can wait for each other.                                       *)
NoLockCycle ==
  \A group \in (SUBSET Sessions) \ {{}} :
    \E s \in group : \/ WaitsFor(s) \cap group = {}
                     \/ cmd[s].to \in Cancellations

(* The locked, interleaved commands implement the atomic ledger: every     *)
(* commit is one accepted command applied to the rows of that instant.     *)
Ledger == INSTANCE MoneyLedger WITH db <- db
ImplementsLedger == Ledger!Spec

(* Every command that starts ends: no session waits for a lock forever.    *)
EveryCommandEnds == \A s \in Sessions : pc[s] # "idle" ~> pc[s] = "idle"
=============================================================================
