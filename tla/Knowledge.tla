------------------------------ MODULE Knowledge ------------------------------
(***************************************************************************)
(* From Slack messages to what search, memory and the graph know of them.  *)
(* One thread (or one message of its own) and its chunk: the API edits and *)
(* deletes messages, imports reconcile them with an export, an owner       *)
(* withdraws a source; the rag-index worker hides, re-reads and republishes*)
(* the chunk as immutable revisions; memory-extract and graph-extract      *)
(* derive from the current revision; a person approves memories.           *)
(*                                                                         *)
(* The queues have one consumer each and run beside each other.  Every     *)
(* transaction over chunks takes the advisory lock rag-index:<workspace>,  *)
(* so a transaction is one step; what is read outside is a step before it. *)
(***************************************************************************)
EXTENDS Naturals, Sequences, FiniteSets

CONSTANTS
  Messages,     \* messages of the thread
  Texts,        \* what a message may say
  Blank,        \* the empty text
  Sources,      \* uploaded exports (source_items)
  Withdrawable, \* bound: those their owner may withdraw
  Nothing,      \* no source, no bundle
  Bundles,      \* exports an import may read, each the revision of its source
  Consumers,    \* the extractors at work, of "memory" and "graph"
  Reviewers,    \* requests that approve a candidate
  MaxStamp,     \* bound: values of editedTs, 0 is null
  MaxJobs,      \* bound: jobs of the rag-index queue
  MaxMemories,  \* bound: approvals
  MaxAttempts,  \* attempts of a rag-index job
  MaxFaults     \* bound: failed steps of the workers

Stamps == 0 .. MaxStamp
Export == [source: Sources, snapshot: BOOLEAN,
           rows: UNION {[D -> [text: Texts, edited: Stamps]] : D \in SUBSET Messages}]

ASSUME KnowledgeAssumption ==
  /\ Blank \notin Texts /\ Nothing \notin Sources /\ Nothing \notin Bundles
  /\ Withdrawable \subseteq Sources
  /\ \A b \in Bundles : b \in Export
  /\ \A b, c \in Bundles : b.source = c.source => b = c
  /\ Consumers \subseteq {"memory", "graph"}
  /\ MaxStamp \in Nat /\ MaxJobs \in Nat /\ MaxMemories \in Nat
  /\ MaxAttempts \in Nat \ {0} /\ MaxFaults \in Nat

VARIABLES
  message,    \* slack_messages
  withdrawn,  \* sources with deletedAt, each with its tombstone job
  importing,  \* the bundle the import job has read
  imported,   \* the workspace has had its first import
  keyed,      \* sources whose change event of the thread exists: its key is taken
  unheard,    \* (a note of the model) changes, deletions with no event since
  rag,        \* the change events, in order, and their rag-index jobs
  indexer,    \* the rag-index worker
  chunk,      \* the chunks row: hidden (deletedAt) and its text
  revs,       \* chunk_revisions and what hangs on each; the last is current
  vector,     \* the revision the online embedding belongs to, 0 for none
  extractor,  \* the memory-extract and graph-extract workers
  reviewer,   \* the candidate a request has read, 0 for none
  memories,   \* memories made by approval
  erased,     \* the last revision a withdrawal has tombstoned, 0 for none
  faults      \* failed steps so far

slackVars == <<message, importing, imported, keyed, unheard>>
chunkVars == <<chunk, revs, vector, memories>>
workVars == <<indexer, extractor, reviewer>>
vars == <<message, withdrawn, importing, imported, keyed, unheard, rag, indexer,
          chunk, revs, vector, extractor, reviewer, memories, erased, faults>>

Kinds == {"full", "created", "edited", "deleted"}
Line == Messages \X Texts
NoMessage == [state |-> "absent", text |-> Blank, edited |-> 0, source |-> Nothing]
IdleIndexer == [pc |-> "idle", job |-> 0, read |-> {}, from |-> {}, rev |-> 0]
IdleExtractor == [pc |-> "idle", rev |-> 0, live |-> FALSE, erase |-> FALSE]

(* A revision with its lineage, embedding version, candidate, mention and  *)
(* the two events that announce it.                                        *)
NewRev(content, sources, tomb, jobs) ==
  [content |-> content, sources |-> sources, tomb |-> tomb, gone |-> tomb,
   jobs |-> jobs, embedded |-> FALSE,
   cand |-> "none", filled |-> FALSE, promoted |-> 0, mention |-> "none",
   ready |-> [c \in Consumers |-> "none"]]

Init ==
  /\ message = [m \in Messages |-> NoMessage]
  /\ withdrawn = [s \in Sources |-> "no"]
  /\ importing = Nothing /\ imported \in BOOLEAN /\ keyed = {} /\ unheard = {}
  /\ rag = <<>> /\ indexer = IdleIndexer
  /\ chunk = [hidden |-> FALSE, text |-> {}]
  /\ revs = <<>> /\ vector = 0
  /\ extractor = [c \in Consumers |-> IdleExtractor]
  /\ reviewer = [v \in Reviewers |-> 0]
  /\ memories = <<>> /\ erased = 0 /\ faults = 0

Live == {m \in Messages : message[m].state = "live"}
Content == {<<m, message[m].text>> : m \in Live}
Current == Len(revs)

-----------------------------------------------------------------------------
(* Messages: the API and the import, each in one transaction with its      *)
(* change event.                                                           *)
Heard(kind) == IF kind = "deleted" THEN {"change", "deletion"} ELSE {"change"}
Queue(kind) ==
  /\ rag' = Append(rag, [kind |-> kind, state |-> "waiting", tries |-> 0])
  /\ unheard' = unheard \ Heard(kind)

EditMessageSilently(m, t, e) ==   \* mutant: the edit queues no change event
  /\ Len(rag) < MaxJobs
  /\ message[m].state = "live"
  /\ message[m].text # t \/ message[m].edited # e
  /\ message' = [message EXCEPT ![m].text = t, ![m].edited = e]
  /\ UNCHANGED <<withdrawn, importing, imported, keyed, unheard, rag, chunkVars,
                 workVars, erased, faults>>

EditMessage(m, t, e) ==
  /\ Len(rag) < MaxJobs
  /\ message[m].state = "live"
  /\ message[m].text # t \/ message[m].edited # e
  /\ message' = [message EXCEPT ![m].text = t, ![m].edited = e]
  /\ Queue("edited")
  /\ UNCHANGED <<withdrawn, importing, imported, keyed, chunkVars, workVars,
                 erased, faults>>

DeleteMessage(m) ==
  /\ Len(rag) < MaxJobs
  /\ message[m].state = "live"
  /\ message' = [message EXCEPT ![m].state = "deleted", ![m].text = Blank]
  /\ Queue("deleted")
  /\ UNCHANGED <<withdrawn, importing, imported, keyed, chunkVars, workVars,
                 erased, faults>>

(* reconcileSlackMessages: a tombstone is never revived, a row that is not *)
(* provably newer than an edit is ignored, a snapshot deletes what it omits.*)
Created(b) == {m \in DOMAIN b.rows : message[m].state = "absent"}
IsStale(m, row) == message[m].edited # 0 /\ row.edited <= message[m].edited
Updated(b) ==
  {m \in DOMAIN b.rows \cap Live :
     LET row == b.rows[m] IN
     /\ message[m].text # row.text \/ message[m].edited # row.edited
     /\ ~IsStale(m, row)}
Omitted(b) == IF b.snapshot THEN Live \ DOMAIN b.rows ELSE {}

(* One event per target, with the gravest of its changes. *)
TargetKind(b) == IF Omitted(b) # {} THEN "deleted"
                 ELSE IF Updated(b) # {} THEN "edited" ELSE "created"

(* Its key is the thread and the revision of the source: when the same      *)
(* revision is imported again, with effect, the event conflicts and is      *)
(* dropped without an error.                                                *)
Drop(kind) == unheard' = unheard \cup Heard(kind) /\ UNCHANGED rag
QueueOnce(b) ==
  /\ IF b.source \in keyed THEN Drop(TargetKind(b)) ELSE Queue(TargetKind(b))
  /\ keyed' = keyed \cup {b.source}

ImportRead(b) ==
  /\ importing = Nothing /\ withdrawn[b.source] = "no"
  /\ Len(rag) < MaxJobs \/ b.source \in keyed
  /\ importing' = b
  /\ UNCHANGED <<message, withdrawn, imported, keyed, unheard, rag, chunkVars,
                 workVars, erased, faults>>

ImportCommit ==
  LET b == importing IN
  /\ b # Nothing
  /\ message' = [m \in Messages |->
       IF m \in Created(b) \cup Updated(b)
       THEN [state |-> "live", text |-> b.rows[m].text,
             edited |-> b.rows[m].edited, source |-> b.source]
       ELSE IF m \in Omitted(b)
       THEN [message[m] EXCEPT !.state = "deleted", !.text = Blank]
       ELSE message[m]]
  /\ IF ~imported THEN Queue("full") /\ UNCHANGED keyed
     ELSE IF Created(b) \cup Updated(b) \cup Omitted(b) = {}
     THEN UNCHANGED <<rag, keyed, unheard>>
     ELSE QueueOnce(b)
  /\ importing' = Nothing /\ imported' = TRUE
  /\ UNCHANGED <<withdrawn, chunkVars, workVars, erased, faults>>

-----------------------------------------------------------------------------
(* Shared by everything that invalidates knowledge: candidates are rejected *)
(* and the memories they promoted are deleted, their texts too if blank.   *)
RejectRev(r, blank) ==
  IF r.cand = "none" THEN r
  ELSE [r EXCEPT !.cand = "rejected", !.filled = IF blank THEN FALSE ELSE @]
Promoted(R) == {revs[i].promoted : i \in R} \ {0}
KillNothing(K, blank) == memories' = memories   \* mutant: promoted memories are kept

KillMemories(K, blank) ==
  memories' = [k \in DOMAIN memories |->
    IF k \in K
    THEN [memories[k] EXCEPT !.live = FALSE, !.filled = IF blank THEN FALSE ELSE @]
    ELSE memories[k]]

Announce(r) == [r EXCEPT !.ready =
  [c \in Consumers |-> IF @[c] = "none" THEN "waiting" ELSE @[c]]]

-----------------------------------------------------------------------------
(* The rag-index worker.  A target job first hides the chunk and           *)
(* invalidates every revision that was not published by this very event.   *)
Targeted(j) == rag[j].kind # "full"
Affected(j) == {i \in DOMAIN revs : j \notin revs[i].jobs}

InvalidateKeepsText(r, kind) ==   \* mutant: a deletion leaves the text of old revisions
  LET s == RejectRev(r, kind = "deleted") IN
  IF kind = "deleted" THEN [s EXCEPT !.gone = TRUE, !.embedded = FALSE] ELSE s

Invalidate(r, kind) ==
  LET s == RejectRev(r, kind = "deleted") IN
  IF kind = "deleted"
  THEN [s EXCEPT !.content = {}, !.gone = TRUE, !.embedded = FALSE]
  ELSE s

Prepare(j) ==
  IF revs = <<>> THEN UNCHANGED chunkVars
  ELSE /\ revs' = [i \in DOMAIN revs |->
                     IF i \in Affected(j) THEN Invalidate(revs[i], rag[j].kind)
                     ELSE revs[i]]
       /\ KillMemories(Promoted(Affected(j)), rag[j].kind = "deleted")
       /\ vector' = 0
       /\ chunk' = [chunk EXCEPT !.hidden = TRUE]

IndexStart(j) ==
  /\ indexer.pc = "idle" /\ j \in DOMAIN rag /\ rag[j].state = "waiting"
  /\ indexer' = [IdleIndexer EXCEPT !.pc = "load", !.job = j]
  /\ rag' = [rag EXCEPT ![j].state = "running"]
  /\ IF Targeted(j) THEN Prepare(j) ELSE UNCHANGED chunkVars
  /\ UNCHANGED <<slackVars, withdrawn, extractor, reviewer, erased, faults>>

IndexEnd(state) ==
  /\ rag' = [rag EXCEPT ![indexer.job].state = state]
  /\ indexer' = IdleIndexer

(* The messages are read outside any lock, then their live sources.        *)
IndexLoad ==
  /\ indexer.pc = "load"
  /\ IF Content = {} /\ ~Targeted(indexer.job) THEN IndexEnd("done")
     ELSE /\ indexer' = [indexer EXCEPT
               !.pc = IF Content = {} THEN "missing" ELSE "sources",
               !.read = Content,
               !.from = {message[m].source : m \in Live}]
          /\ UNCHANGED rag
  /\ UNCHANGED <<slackVars, withdrawn, chunkVars, extractor, reviewer, erased, faults>>

IndexSources ==
  /\ indexer.pc = "sources"
  /\ indexer' = [indexer EXCEPT
       !.pc = "publish", !.from = {s \in @ : withdrawn[s] = "no"}]
  /\ UNCHANGED <<slackVars, withdrawn, rag, chunkVars, extractor, reviewer, erased, faults>>

(* A revision of the same text and sources is used again. *)
Unchanged(read, from) ==
  /\ revs # <<>> /\ revs[Current].content = read /\ revs[Current].sources = from
IndexPublishHidden ==   \* mutant: the chunk is not shown again
  LET by == IF Targeted(indexer.job) THEN {indexer.job} ELSE {}
      same == Unchanged(indexer.read, indexer.from) IN
  /\ indexer.pc = "publish"
  /\ chunk' = [chunk EXCEPT !.text = indexer.read]
  /\ revs' = IF same THEN [revs EXCEPT ![Current].jobs = @ \cup by]
             ELSE Append(revs, NewRev(indexer.read, indexer.from, FALSE, by))
  /\ indexer' = [indexer EXCEPT !.pc = "embed",
                                !.rev = IF same THEN Current ELSE Current + 1]
  /\ UNCHANGED <<slackVars, withdrawn, rag, vector, memories, extractor, reviewer,
                 erased, faults>>

IndexPublish ==
  LET by == IF Targeted(indexer.job) THEN {indexer.job} ELSE {}
      same == Unchanged(indexer.read, indexer.from) IN
  /\ indexer.pc = "publish"
  /\ chunk' = [hidden |-> FALSE, text |-> indexer.read]
  /\ revs' = IF same THEN [revs EXCEPT ![Current].jobs = @ \cup by]
             ELSE Append(revs, NewRev(indexer.read, indexer.from, FALSE, by))
  /\ indexer' = [indexer EXCEPT !.pc = "embed",
                                !.rev = IF same THEN Current ELSE Current + 1]
  /\ UNCHANGED <<slackVars, withdrawn, rag, vector, memories, extractor, reviewer,
                 erased, faults>>

(* The provider is asked outside the lock; its vector is stored per revision. *)
IndexEmbed ==
  /\ indexer.pc = "embed"
  /\ revs' = [revs EXCEPT ![indexer.rev].embedded = TRUE]
  /\ indexer' = [indexer EXCEPT !.pc = "project"]
  /\ UNCHANGED <<slackVars, withdrawn, rag, chunk, vector, memories, extractor,
                 reviewer, erased, faults>>

(* Only a revision that is still current goes online and is announced.     *)
IsPublishable == ~chunk.hidden /\ indexer.rev = Current
IndexProject ==
  /\ indexer.pc = "project"
  /\ IF IsPublishable
     THEN /\ vector' = indexer.rev
          /\ revs' = [revs EXCEPT ![indexer.rev] = Announce(@)]
     ELSE UNCHANGED <<vector, revs>>
  /\ IndexEnd("done")
  /\ UNCHANGED <<slackVars, withdrawn, chunk, memories, extractor, reviewer, erased, faults>>

(* The current revision becomes a tombstone, which is announced too.       *)
BuryQuietly(rs, jobs) ==   \* mutant: a new tombstone is not announced
  LET n == Len(rs) IN
  IF rs[n].tomb THEN [rs EXCEPT ![n] = Announce([rs[n] EXCEPT !.jobs = @ \cup jobs])]
  ELSE Append([rs EXCEPT ![n].gone = TRUE], NewRev({}, {}, TRUE, jobs))

Bury(rs, jobs) ==
  LET n == Len(rs) IN
  IF rs[n].tomb THEN [rs EXCEPT ![n] = Announce([rs[n] EXCEPT !.jobs = @ \cup jobs])]
  ELSE Append([rs EXCEPT ![n].gone = TRUE], Announce(NewRev({}, {}, TRUE, jobs)))

TombstoneMissing ==
  /\ indexer.pc = "missing"
  /\ IF revs = <<>> THEN UNCHANGED <<revs, chunk>>
     ELSE /\ revs' = Bury(revs, {indexer.job})
          /\ chunk' = IF revs[Current].tomb THEN chunk
                      ELSE [hidden |-> TRUE, text |-> {}]
  /\ IndexEnd("done")
  /\ UNCHANGED <<slackVars, withdrawn, vector, memories, extractor, reviewer, erased, faults>>

(* The provider or the database fails, or the worker restarts: BullMQ runs *)
(* the job again, later than jobs behind it, until its attempts are spent. *)
IndexFail ==
  LET j == indexer.job IN
  /\ indexer.pc # "idle" /\ faults < MaxFaults
  /\ faults' = faults + 1
  /\ rag' = [rag EXCEPT ![j].tries = @ + 1,
       ![j].state = IF rag[j].tries + 1 = MaxAttempts THEN "failed" ELSE "waiting"]
  /\ indexer' = IdleIndexer
  /\ UNCHANGED <<slackVars, withdrawn, chunkVars, extractor, reviewer, erased>>

-----------------------------------------------------------------------------
(* The withdrawal of a source and its tombstone worker.                    *)
TombstoneSource(s) ==
  /\ s \in Withdrawable /\ withdrawn[s] = "no"
  /\ withdrawn' = [withdrawn EXCEPT ![s] = "requested"]
  /\ UNCHANGED <<slackVars, rag, chunkVars, workVars, erased, faults>>

(* Messages of the source are deleted; a chunk with a revision derived from *)
(* the source loses the text of every revision.  Derived objects are deleted *)
(* after the transaction: a failure there runs the whole job again.        *)
Scrub(r) == [RejectRev(r, TRUE) EXCEPT
               !.content = {}, !.gone = TRUE, !.embedded = FALSE]
WithoutMessages(s) ==
  [m \in Messages |-> IF message[m].source = s THEN NoMessage ELSE message[m]]
Descends(s) == \E i \in DOMAIN revs : s \in revs[i].sources
PropagateTombstone(s) ==
  /\ withdrawn[s] = "requested"
  /\ message' = WithoutMessages(s)
  /\ IF ~Descends(s) THEN UNCHANGED <<chunkVars, erased>>
     ELSE /\ revs' = Bury([i \in DOMAIN revs |-> Scrub(revs[i])], {})
          /\ KillMemories({k \in Promoted(DOMAIN revs) : memories[k].live}, TRUE)
          /\ vector' = 0
          /\ chunk' = [hidden |-> TRUE, text |-> {}]
          /\ erased' = Len(revs')
  /\ \/ withdrawn' = [withdrawn EXCEPT ![s] = "done"] /\ UNCHANGED faults
     \/ faults < MaxFaults /\ faults' = faults + 1 /\ UNCHANGED withdrawn
  /\ UNCHANGED <<importing, imported, keyed, unheard, rag, workVars>>

-----------------------------------------------------------------------------
(* memory-extract and graph-extract read the current revision, derive, and *)
(* check in their transaction that it is current still.                    *)
ExtractRead(c, n) ==
  /\ extractor[c].pc = "idle" /\ n \in DOMAIN revs /\ revs[n].ready[c] = "waiting"
  /\ IF n # Current
     THEN revs' = [revs EXCEPT ![n].ready[c] = "done"] /\ UNCHANGED extractor
     ELSE /\ extractor' = [extractor EXCEPT ![c] =
               [pc |-> "read", rev |-> n,
                live |-> ~chunk.hidden /\ ~revs[n].gone /\ ~revs[n].tomb,
                erase |-> revs[n].tomb \/ revs[n].gone]]
          /\ UNCHANGED revs
  /\ UNCHANGED <<slackVars, withdrawn, rag, indexer, chunk, vector, memories,
                 reviewer, erased, faults>>

StillCurrentNever(c) == TRUE   \* mutant: the revision is not looked at again

StillCurrent(c) == extractor[c].rev = Current

(* Candidates of other revisions are stale; a tombstone also empties them. *)
Stale(n, erase) ==
  {i \in DOMAIN revs \ {n} :
     \/ revs[i].cand \in {"pending", "approved"}
     \/ erase /\ revs[i].filled}
Derive(r) == IF r.cand = "none" THEN [r EXCEPT !.cand = "pending", !.filled = TRUE]
             ELSE r

MemoryCommit ==
  LET x == extractor["memory"]
      stale == Stale(x.rev, x.erase)
      Step(i) == IF i \in stale THEN RejectRev(revs[i], x.erase)
                 ELSE IF i = x.rev /\ x.live THEN Derive(revs[i]) ELSE revs[i] IN
  /\ x.pc = "read"
  /\ revs' = [i \in DOMAIN revs |->
       LET r == IF StillCurrent("memory") THEN Step(i) ELSE revs[i] IN
       IF i = x.rev THEN [r EXCEPT !.ready["memory"] = "done"] ELSE r]
  /\ IF StillCurrent("memory") THEN KillMemories(Promoted(stale), x.erase)
     ELSE UNCHANGED memories
  /\ extractor' = [extractor EXCEPT !["memory"] = IdleExtractor]
  /\ UNCHANGED <<slackVars, withdrawn, rag, indexer, chunk, vector, reviewer,
                 erased, faults>>

(* Open mentions of other revisions, or of a chunk that is hidden at this  *)
(* moment, are closed; a mention that exists, open or closed, is not made  *)
(* again.                                                                  *)
GraphCommit ==
  LET x == extractor["graph"]
      Close(r) == IF r.mention = "open" THEN [r EXCEPT !.mention = "closed"] ELSE r
      Open(r) == IF x.live /\ r.mention = "none" THEN [r EXCEPT !.mention = "open"] ELSE r
      Step(i) == IF i # x.rev THEN Close(revs[i])
                 ELSE Open(IF chunk.hidden THEN Close(revs[i]) ELSE revs[i]) IN
  /\ x.pc = "read"
  /\ revs' = [i \in DOMAIN revs |->
       LET r == IF StillCurrent("graph") THEN Step(i) ELSE revs[i] IN
       IF i = x.rev THEN [r EXCEPT !.ready["graph"] = "done"] ELSE r]
  /\ extractor' = [extractor EXCEPT !["graph"] = IdleExtractor]
  /\ UNCHANGED <<slackVars, withdrawn, rag, indexer, chunk, vector, memories,
                 reviewer, erased, faults>>

ExtractFail(c) ==
  /\ extractor[c].pc = "read" /\ faults < MaxFaults
  /\ faults' = faults + 1
  /\ extractor' = [extractor EXCEPT ![c] = IdleExtractor]
  /\ UNCHANGED <<slackVars, withdrawn, rag, indexer, chunkVars, reviewer, erased>>

-----------------------------------------------------------------------------
(* A person: approval reads the candidate, then writes without looking     *)
(* again; the text of the memory is the one that was read.  A memory is    *)
(* loose (a note of the model) once its candidate no longer leads to it.   *)
ApproveRead(v, n) ==
  /\ reviewer[v] = 0 /\ n \in DOMAIN revs /\ revs[n].cand = "pending"
  /\ Len(memories) + Cardinality({u \in Reviewers : reviewer[u] # 0}) < MaxMemories
  /\ reviewer' = [reviewer EXCEPT ![v] = n]
  /\ UNCHANGED <<slackVars, withdrawn, rag, indexer, chunkVars, extractor, erased, faults>>

Loosened(K) == [k \in DOMAIN memories |->
                  IF k \in K THEN [memories[k] EXCEPT !.loose = TRUE] ELSE memories[k]]
ApproveCommit(v) ==
  LET n == reviewer[v] IN
  /\ n # 0
  /\ memories' = Append(Loosened({revs[n].promoted}),
                        [rev |-> n, live |-> TRUE, filled |-> TRUE,
                         loose |-> revs[n].cand # "pending"])
  /\ revs' = [revs EXCEPT ![n].cand = "approved", ![n].promoted = Len(memories) + 1]
  /\ reviewer' = [reviewer EXCEPT ![v] = 0]
  /\ UNCHANGED <<slackVars, withdrawn, rag, indexer, chunk, vector, extractor,
                 erased, faults>>

RejectCandidate(n) ==
  /\ Reviewers # {} /\ n \in DOMAIN revs /\ revs[n].cand \notin {"none", "rejected"}
  /\ revs' = [revs EXCEPT ![n].cand = "rejected"]
  /\ memories' = Loosened({revs[n].promoted})
  /\ UNCHANGED <<slackVars, withdrawn, rag, chunk, vector, workVars, erased, faults>>

DeleteMemory(k) ==
  /\ k \in DOMAIN memories /\ memories[k].live
  /\ memories' = [memories EXCEPT ![k].live = FALSE]
  /\ UNCHANGED <<slackVars, withdrawn, rag, chunk, revs, vector, workVars,
                 erased, faults>>

-----------------------------------------------------------------------------
Api ==
  \/ \E m \in Messages, t \in Texts, e \in Stamps \ {0} : EditMessage(m, t, e)
  \/ \E m \in Messages : DeleteMessage(m)
  \/ \E s \in Sources : TombstoneSource(s)
  \/ \E v \in Reviewers, n \in DOMAIN revs : ApproveRead(v, n)
  \/ \E n \in DOMAIN revs : RejectCandidate(n)
  \/ \E k \in DOMAIN memories : DeleteMemory(k)
Indexing ==
  \/ \E j \in DOMAIN rag : IndexStart(j)
  \/ IndexLoad \/ IndexSources \/ IndexPublish \/ IndexEmbed \/ IndexProject
  \/ TombstoneMissing
Extracting(c) ==
  \/ \E n \in DOMAIN revs : ExtractRead(c, n)
  \/ c = "memory" /\ MemoryCommit
  \/ c = "graph" /\ GraphCommit
Next ==
  \/ Api \/ Indexing \/ IndexFail
  \/ \E b \in Bundles : ImportRead(b)
  \/ ImportCommit
  \/ \E s \in Sources : PropagateTombstone(s)
  \/ \E c \in Consumers : Extracting(c) \/ ExtractFail(c)
  \/ \E v \in Reviewers : ApproveCommit(v)

Spec == Init /\ [][Next]_vars

(* Queues deliver what they hold, and a request that has begun is finished. *)
FairSpec ==
  /\ Spec /\ WF_vars(Indexing) /\ WF_vars(ImportCommit)
  /\ \A s \in Sources : WF_vars(PropagateTombstone(s))
  /\ \A c \in Consumers : WF_vars(Extracting(c))
  /\ \A v \in Reviewers : WF_vars(ApproveCommit(v))

-----------------------------------------------------------------------------
TypeOK ==
  /\ message \in [Messages -> [state: {"absent", "live", "deleted"},
        text: Texts \cup {Blank}, edited: Stamps, source: Sources \cup {Nothing}]]
  /\ withdrawn \in [Sources -> {"no", "requested", "done"}]
  /\ importing \in Bundles \cup {Nothing} /\ imported \in BOOLEAN
  /\ keyed \subseteq Sources /\ unheard \subseteq {"change", "deletion"}
  /\ rag \in Seq([kind: Kinds, state: {"waiting", "running", "done", "failed"},
                   tries: 0 .. MaxAttempts])
  /\ indexer \in [pc: {"idle", "load", "missing", "sources", "publish", "embed",
                       "project"},
                  job: Nat, read: SUBSET Line, from: SUBSET (Sources \cup {Nothing}), rev: Nat]
  /\ chunk \in [hidden: BOOLEAN, text: SUBSET Line]
  /\ vector \in 0 .. Current /\ erased \in 0 .. Current
  /\ revs \in Seq([content: SUBSET Line, sources: SUBSET (Sources \cup {Nothing}), tomb: BOOLEAN,
        gone: BOOLEAN, jobs: SUBSET Nat, embedded: BOOLEAN,
        cand: {"none", "pending", "approved", "rejected"}, filled: BOOLEAN,
        promoted: Nat, mention: {"none", "open", "closed"},
        ready: [Consumers -> {"none", "waiting", "done"}]])
  /\ extractor \in [Consumers -> [pc: {"idle", "read"}, rev: Nat, live: BOOLEAN,
                                  erase: BOOLEAN]]
  /\ reviewer \in [Reviewers -> 0 .. Current]
  /\ memories \in Seq([rev: Nat, live: BOOLEAN, filled: BOOLEAN, loose: BOOLEAN])
  /\ faults \in 0 .. MaxFaults

(* Nothing queued, running or half done. *)
Quiet ==
  /\ importing = Nothing
  /\ \A j \in DOMAIN rag : rag[j].state \in {"done", "failed"}
  /\ \A s \in Sources : withdrawn[s] # "requested"
  /\ \A c \in Consumers : /\ extractor[c].pc = "idle"
                           /\ \A i \in DOMAIN revs : revs[i].ready[c] # "waiting"
  /\ \A v \in Reviewers : reviewer[v] = 0
Settled == Quiet /\ \A j \in DOMAIN rag : rag[j].state = "done"
IsServed == revs # <<>> /\ ~chunk.hidden
NothingWithdrawn == \A s \in Sources : withdrawn[s] = "no"

(* Whatever the order of edits, deletions, imports, failures and retries,  *)
(* once every index job has ended well search finds exactly what the       *)
(* messages say now, and nothing when none is left.  Told apart are a      *)
(* withdrawn source, whose chunk is tombstoned with the messages of other  *)
(* sources, and a change whose event was dropped, because a source revision *)
(* was imported again (slack-import.processor.ts:804-824), until the next  *)
(* event of the thread.                                                    *)
IndexFollowsMessages ==
  Settled /\ NothingWithdrawn /\ "change" \notin unheard =>
    /\ IsServed <=> Content # {}
    /\ IsServed => /\ chunk.text = Content /\ vector = Current
                   /\ revs[Current].content = Content /\ revs[Current].embedded

(* Once every index job has ended well, the text of a deleted message is in *)
(* no revision of the chunk, old or current.  Told apart is a deletion by a *)
(* source revision imported again, whose event was dropped                  *)
(* (slack-import.processor.ts:804-824), until the next deletion's event.   *)
DeletedTextIsErased ==
  Settled /\ "deletion" \notin unheard => \A i \in DOMAIN revs : \A l \in revs[i].content :
               message[l[1]].state # "deleted"

(* A memory lives no longer than the revision it was approved from, unless *)
(* it is loose: its approval was overtaken, by an invalidation or another  *)
(* approval, or a person has rejected its candidate since.  Told apart are *)
(* a withdrawal or a dropped event (slack-import.processor.ts:804-824) that *)
(* leaves no message: an index job may then end without a look at the chunk *)
(* (rag-index.processor.ts:405), and a revision it had published in an      *)
(* attempt that failed is not announced.                                    *)
MemoryFollowsText ==
  Settled /\ "change" \notin unheard /\ (NothingWithdrawn \/ Content # {}) =>
    \A k \in DOMAIN memories :
      memories[k].live /\ ~memories[k].loose => memories[k].rev = Current

(* The graph only holds what the current text of a served chunk mentions,  *)
(* a withdrawal and a dropped event told apart as for memories.            *)
MentionsFollowText ==
  Settled /\ NothingWithdrawn /\ "change" \notin unheard => \A i \in DOMAIN revs :
    revs[i].mention = "open" => i = Current /\ IsServed

(* The revisions a withdrawal has tombstoned stay empty: an extractor that  *)
(* had read one adds no candidate to it and a rag-index job that had        *)
(* published one does not put it online again; of their memories only loose *)
(* ones live, approved from a copy read before.  It is not claimed that the *)
(* text is gone: a rag-index job that had read the messages before publishes *)
(* it as a later revision (rag-index.processor.ts:476-655), one that was    *)
(* embedding stores the vector of an erased revision again (731-735), and a *)
(* memory deleted before the withdrawal keeps its text                      *)
(* (source-tombstone.processor.ts:467-472).                                 *)
ErasedStaysErased ==
  /\ \A i \in 1 .. erased : revs[i].content = {} /\ ~revs[i].filled /\ vector # i
  /\ \A k \in DOMAIN memories :
       memories[k].rev <= erased /\ ~memories[k].loose => ~memories[k].live

(* docs/architecture/ai-learning-data-pipeline.md:423 says that the chunks *)
(* of a withdrawn source are tombstoned and leave the online index.        *)
WithdrawnSourceIsForgotten ==
  Quiet /\ (\A s \in Sources : withdrawn[s] = "done") => ~IsServed

(* Every change reaches search in the end: again and again search finds     *)
(* what the messages say, unless a job has spent its attempts, a source is  *)
(* withdrawn, or a change was dropped with its event                        *)
(* (slack-import.processor.ts:804-824) and no event has followed.           *)
SearchCatchesUp ==
  []<>(\/ (IsServed <=> Content # {}) /\ (IsServed => chunk.text = Content)
       \/ \E j \in DOMAIN rag : rag[j].state = "failed"
       \/ ~NothingWithdrawn \/ "change" \in unheard)
=============================================================================
