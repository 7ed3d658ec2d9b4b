--------------------------- MODULE KnowledgeProofs ---------------------------
(***************************************************************************)
(* Theorems about Knowledge, for any messages, sources, exports, numbers   *)
(* of jobs and attempts: types; that the revisions a withdrawal has erased *)
(* stay empty and offline; and that with all work done, and no change whose *)
(* event was dropped, search, memories and mentions follow the messages.   *)
(*                                                                         *)
(* Inv is about each revision, memory and reader.  IndexInv adds what the  *)
(* index owes the messages at each of its phases, DeriveInv what the       *)
(* extractors owe the current revision, OfflineInv what is not online;     *)
(* FollowInv is all of them.                                               *)
(***************************************************************************)
EXTENDS Knowledge, SequenceTheorems, TLAPS

Revision == [content: SUBSET Line, sources: SUBSET (Sources \cup {Nothing}), tomb: BOOLEAN,
             gone: BOOLEAN, jobs: SUBSET Nat, embedded: BOOLEAN,
             cand: {"none", "pending", "approved", "rejected"}, filled: BOOLEAN,
             promoted: Nat, mention: {"none", "open", "closed"},
             ready: [Consumers -> {"none", "waiting", "done"}]]
Memory == [rev: Nat, live: BOOLEAN, filled: BOOLEAN, loose: BOOLEAN]
Job == [kind: Kinds, state: {"waiting", "running", "done", "failed"},
        tries: 0 .. MaxAttempts]
Indexer == [pc: {"idle", "load", "missing", "sources", "publish", "embed", "project"},
            job: Nat, read: SUBSET Line, from: SUBSET (Sources \cup {Nothing}), rev: Nat]
Extractor == [pc: {"idle", "read"}, rev: Nat, live: BOOLEAN, erase: BOOLEAN]

(* A live message says something. *)
LiveInv == \A m \in Messages : message[m].state = "live" => message[m].text \in Texts

(* A job that may still run has an attempt left, and the one the worker    *)
(* has is running.                                                         *)
WorkInv ==
  /\ indexer.pc # "idle" => indexer.job \in DOMAIN rag /\ rag[indexer.job].state = "running"
  /\ \A j \in DOMAIN rag : rag[j].state \in {"waiting", "running"} =>
                             rag[j].tries < MaxAttempts

(* What a withdrawal has erased has no text, its candidates can no longer  *)
(* be approved as such, and its last revision is a tombstone.              *)
EmptyInv ==
  /\ \A i \in 1 .. erased : /\ revs[i].content = {} /\ ~revs[i].filled
                            /\ revs[i].cand # "pending"
  /\ erased # 0 => revs[erased].tomb
  /\ \A i \in DOMAIN revs : revs[i].cand = "none" => ~revs[i].filled

(* So an extractor that may still derive has not read that tombstone.      *)
ReaderInv ==
  \A c \in Consumers : extractor[c].pc = "read" =>
    /\ extractor[c].rev \in DOMAIN revs
    /\ extractor[c].live => ~revs[extractor[c].rev].tomb

(* A memory is found again from its candidate, unless it is loose.         *)
MemoryInv ==
  \A k \in DOMAIN memories : memories[k].live /\ ~memories[k].loose =>
    /\ memories[k].rev \in DOMAIN revs /\ memories[k].rev > erased
    /\ revs[memories[k].rev].promoted = k

Inv == TypeOK /\ LiveInv /\ WorkInv /\ EmptyInv /\ ReaderInv /\ MemoryInv

-----------------------------------------------------------------------------
(* Sequences updated point by point, at one place, or extended.            *)
LEMMA Mapped ==
  ASSUME NEW S, NEW T, NEW s \in Seq(S), NEW t \in [DOMAIN s -> T]
  PROVE  t \in Seq(T) /\ Len(t) = Len(s) /\ DOMAIN t = DOMAIN s
<1>1. Len(s) \in Nat /\ DOMAIN s = 1 .. Len(s)
  BY LenProperties
<1>2. t \in Seq(T)
  BY <1>1, SeqDef
<1>3. Len(t) \in Nat /\ DOMAIN t = 1 .. Len(t)
  BY <1>2, LenProperties
<1> QED
  BY <1>1, <1>2, <1>3

LEMMA Placed ==
  ASSUME NEW S, NEW s \in Seq(S), NEW i \in DOMAIN s, NEW e \in S
  PROVE  LET t == [s EXCEPT ![i] = e] IN
         /\ t \in Seq(S) /\ Len(t) = Len(s) /\ DOMAIN t = DOMAIN s
         /\ \A j \in DOMAIN s : t[j] = IF j = i THEN e ELSE s[j]
BY ExceptSeq, LenProperties

LEMMA Extended ==
  ASSUME NEW S, NEW s \in Seq(S), NEW e \in S
  PROVE  LET t == Append(s, e) IN
         /\ t \in Seq(S) /\ Len(t) = Len(s) + 1 /\ DOMAIN t = 1 .. Len(s) + 1
         /\ DOMAIN s \subseteq DOMAIN t /\ Len(s) + 1 \notin DOMAIN s
         /\ \A j \in DOMAIN s : t[j] = s[j]
         /\ t[Len(s) + 1] = e
<1>1. Len(s) \in Nat /\ DOMAIN s = 1 .. Len(s)
  BY LenProperties
<1> QED
  BY <1>1

-----------------------------------------------------------------------------
(* What the operators on a revision do to it.                              *)
Kept(r, s) ==
  /\ s.tomb = r.tomb /\ s.promoted = r.promoted /\ s.content \subseteq r.content
  /\ s.filled => r.filled
  /\ s.cand = "pending" => r.cand = "pending"
  /\ s.cand = "none" => r.cand = "none"

LEMMA Rejected ==
  ASSUME NEW r \in Revision, NEW blank \in BOOLEAN
  PROVE  LET s == RejectRev(r, blank) IN
         /\ s \in Revision /\ Kept(r, s) /\ s.cand # "pending"
         /\ blank /\ (r.cand = "none" => ~r.filled) => ~s.filled
BY DEF RejectRev, Revision, Kept

LEMMA Invalidated ==
  ASSUME NEW r \in Revision, NEW kind
  PROVE  Invalidate(r, kind) \in Revision /\ Kept(r, Invalidate(r, kind))
<1> DEFINE s == RejectRev(r, kind = "deleted")
<1>1. s \in Revision /\ Kept(r, s)
  BY Rejected
<1>2. Invalidate(r, kind) = IF kind = "deleted"
        THEN [s EXCEPT !.content = {}, !.gone = TRUE, !.embedded = FALSE] ELSE s
  BY DEF Invalidate
<1> HIDE DEF s
<1>3. LET t == [s EXCEPT !.content = {}, !.gone = TRUE, !.embedded = FALSE] IN
      t \in Revision /\ Kept(s, t)
  BY <1>1 DEF Revision, Kept
<1> QED
  BY <1>1, <1>2, <1>3 DEF Kept

LEMMA Scrubbed ==
  ASSUME NEW r \in Revision, r.cand = "none" => ~r.filled
  PROVE  LET s == Scrub(r) IN
         /\ s \in Revision /\ Kept(r, s)
         /\ s.content = {} /\ ~s.filled /\ s.cand # "pending"
<1> DEFINE q == RejectRev(r, TRUE)
<1>1. q \in Revision /\ Kept(r, q) /\ ~q.filled /\ q.cand # "pending"
  BY Rejected
<1>2. Scrub(r) = [q EXCEPT !.content = {}, !.gone = TRUE, !.embedded = FALSE]
  BY DEF Scrub
<1> HIDE DEF q
<1> QED
  BY <1>1, <1>2 DEF Revision, Kept

(* The fields an announcement, an embedding or a mention changes.          *)
LEMMA Announced ==
  ASSUME NEW r \in Revision
  PROVE  Announce(r) \in Revision /\ Kept(r, Announce(r))
<1> DEFINE f == [c \in Consumers |-> IF r.ready[c] = "none" THEN "waiting" ELSE r.ready[c]]
<1>1. f \in [Consumers -> {"none", "waiting", "done"}]
  BY DEF Revision
<1>2. Announce(r) = [r EXCEPT !.ready = f]
  BY DEF Announce
<1> HIDE DEF f
<1> QED
  BY <1>1, <1>2 DEF Revision, Kept

LEMMA Touched ==
  ASSUME NEW r \in Revision
  PROVE  /\ [r EXCEPT !.embedded = TRUE] \in Revision
         /\ Kept(r, [r EXCEPT !.embedded = TRUE])
         /\ \A js \in SUBSET Nat : /\ [r EXCEPT !.jobs = js] \in Revision
                                   /\ Kept(r, [r EXCEPT !.jobs = js])
         /\ \A m \in {"none", "open", "closed"} :
              /\ [r EXCEPT !.mention = m] \in Revision
              /\ Kept(r, [r EXCEPT !.mention = m])
         /\ \A c \in Consumers : /\ [r EXCEPT !.ready[c] = "done"] \in Revision
                                 /\ Kept(r, [r EXCEPT !.ready[c] = "done"])
BY DEF Revision, Kept

LEMMA NewRevType ==
  ASSUME NEW content \in SUBSET Line, NEW sources \in SUBSET (Sources \cup {Nothing}),
         NEW tomb \in BOOLEAN, NEW jobs \in SUBSET Nat
  PROVE  LET r == NewRev(content, sources, tomb, jobs) IN
         /\ r \in Revision /\ ~r.filled /\ r.cand = "none" /\ r.tomb = tomb
         /\ r.content = content
BY DEF NewRev, Revision

(* The chunk's revisions get a tombstone at their end.                     *)
LEMMA Buried ==
  ASSUME NEW rs \in Seq(Revision), rs # <<>>, NEW jobs \in SUBSET Nat
  PROVE  LET t == Bury(rs, jobs) IN
         /\ t \in Seq(Revision) /\ Len(t) >= Len(rs) /\ Len(t) # 0
         /\ DOMAIN t = 1 .. Len(t) /\ DOMAIN rs \subseteq DOMAIN t
         /\ \A i \in DOMAIN rs : Kept(rs[i], t[i])
         /\ \A i \in DOMAIN t \ DOMAIN rs :
              t[i].content = {} /\ ~t[i].filled /\ t[i].cand = "none"
         /\ t[Len(t)].tomb
<1> DEFINE n == Len(rs)
<1>1. n \in Nat \ {0} /\ DOMAIN rs = 1 .. n /\ n \in DOMAIN rs
  BY EmptySeq, LenProperties
<1>2. rs[n] \in Revision /\ \A i \in DOMAIN rs : rs[i] \in Revision
  BY <1>1, ElementOfSeq
<1>3. \A r \in Revision : Kept(r, r)
  BY DEF Kept
<1>4. CASE rs[n].tomb
  <2> DEFINE q == [rs[n] EXCEPT !.jobs = rs[n].jobs \cup jobs]
             e == Announce(q)
  <2>1. q \in Revision /\ Kept(rs[n], q)
    <3>1. rs[n].jobs \cup jobs \in SUBSET Nat
      BY <1>2 DEF Revision
    <3> QED
      BY <1>2, <3>1, Touched
  <2>2. e \in Revision /\ Kept(q, e)
    BY <2>1, Announced
  <2>3. Kept(rs[n], e) /\ e.tomb
    BY <1>4, <2>1, <2>2 DEF Kept
  <2>4. Bury(rs, jobs) = [rs EXCEPT ![n] = e]
    <3>1. Bury(rs, jobs) = [rs EXCEPT ![n] = Announce([rs[n] EXCEPT !.jobs = rs[n].jobs \cup jobs])]
      BY <1>4, Zenon DEF Bury
    <3> QED
      BY <3>1, Zenon
  <2> HIDE DEF q, e
  <2>5. LET t == [rs EXCEPT ![n] = e] IN
        /\ t \in Seq(Revision) /\ Len(t) = Len(rs) /\ DOMAIN t = DOMAIN rs
        /\ \A j \in DOMAIN rs : t[j] = IF j = n THEN e ELSE rs[j]
    BY <1>1, <2>2, Placed
  <2> QED
    BY <1>1, <1>2, <1>3, <2>3, <2>4, <2>5
<1>5. CASE ~rs[n].tomb
  <2> DEFINE g == [rs[n] EXCEPT !.gone = TRUE]
             rs1 == [rs EXCEPT ![n] = g]
             e == Announce(NewRev({}, {}, TRUE, jobs))
  <2>1. g \in Revision /\ Kept(rs[n], g)
    BY <1>2 DEF Revision, Kept
  <2>2. /\ e \in Revision /\ ~e.filled /\ e.cand = "none" /\ e.tomb /\ e.content = {}
    <3> DEFINE q == NewRev({}, {}, TRUE, jobs)
    <3>1. q \in Revision /\ ~q.filled /\ q.cand = "none" /\ q.tomb /\ q.content = {}
      BY {} \in SUBSET Line, {} \in SUBSET (Sources \cup {Nothing}), TRUE \in BOOLEAN,
         NewRevType, Zenon
    <3>2. e.cand = q.cand
      BY <3>1 DEF Announce, Revision
    <3>3. e = Announce(q)
      OBVIOUS
    <3> HIDE DEF q, e
    <3>4. e \in Revision /\ Kept(q, e)
      BY <3>1, <3>3, Announced
    <3> QED
      BY <3>1, <3>2, <3>4 DEF Kept, Revision
  <2>3. Bury(rs, jobs) = Append(rs1, e)
    BY <1>5 DEF Bury
  <2> HIDE DEF g, e
  <2>4. /\ rs1 \in Seq(Revision) /\ Len(rs1) = Len(rs) /\ DOMAIN rs1 = DOMAIN rs
        /\ \A j \in DOMAIN rs : rs1[j] = IF j = n THEN g ELSE rs[j]
    BY <1>1, <2>1, Placed
  <2> HIDE DEF rs1
  <2>5. LET t == Append(rs1, e) IN
        /\ t \in Seq(Revision) /\ Len(t) = Len(rs1) + 1 /\ DOMAIN t = 1 .. Len(rs1) + 1
        /\ DOMAIN rs1 \subseteq DOMAIN t /\ Len(rs1) + 1 \notin DOMAIN rs1
        /\ \A j \in DOMAIN rs1 : t[j] = rs1[j]
        /\ t[Len(rs1) + 1] = e
    BY <2>2, <2>4, Extended
  <2>6. DOMAIN Append(rs1, e) \ DOMAIN rs = {n + 1}
    BY <1>1, <2>4, <2>5
  <2> QED
    BY <1>1, <1>2, <1>3, <2>1, <2>2, <2>3, <2>4, <2>5, <2>6
<1> QED
  BY <1>4, <1>5

-----------------------------------------------------------------------------
(* The rows of messages and sources, the jobs, and the chunk, apart.       *)
SlackType ==
  /\ message \in [Messages -> [state: {"absent", "live", "deleted"},
        text: Texts \cup {Blank}, edited: Stamps, source: Sources \cup {Nothing}]]
  /\ withdrawn \in [Sources -> {"no", "requested", "done"}]
  /\ importing \in Bundles \cup {Nothing} /\ imported \in BOOLEAN
  /\ keyed \subseteq Sources /\ unheard \subseteq {"change", "deletion"}
  /\ LiveInv
WorkType ==
  /\ rag \in Seq(Job) /\ indexer \in Indexer /\ faults \in 0 .. MaxFaults
  /\ WorkInv
ChunkType ==
  /\ chunk \in [hidden: BOOLEAN, text: SUBSET Line]
  /\ revs \in Seq(Revision) /\ memories \in Seq(Memory)
  /\ vector \in 0 .. Current /\ erased \in 0 .. Current
  /\ extractor \in [Consumers -> Extractor]
  /\ reviewer \in [Reviewers -> 0 .. Current]
ErasureInv == EmptyInv /\ ReaderInv /\ MemoryInv

LEMMA InvParts == Inv <=> SlackType /\ WorkType /\ ChunkType /\ ErasureInv
BY DEF Inv, TypeOK, LiveInv, SlackType, WorkType, ChunkType, ErasureInv, Revision, Memory, Job,
       Indexer, Extractor

Untouched == UNCHANGED <<message, withdrawn, importing, imported, keyed, unheard>>

LEMMA SlackSteps == ASSUME SlackType, [Next]_vars PROVE SlackType'
<1>1. CASE Untouched
  BY <1>1 DEF SlackType, LiveInv, Untouched
<1>2. ASSUME NEW m \in Messages, NEW t \in Texts, NEW e \in Stamps, EditMessage(m, t, e)
      PROVE  SlackType'
  <2>1. message' = [message EXCEPT ![m] = [message[m] EXCEPT !.text = t, !.edited = e]]
    BY <1>2 DEF EditMessage, SlackType
  <2>2. UNCHANGED <<withdrawn, importing, imported, keyed>> /\ unheard' \subseteq unheard
    BY <1>2 DEF EditMessage, Queue
  <2> DEFINE row == [message[m] EXCEPT !.text = t, !.edited = e]
  <2>3. /\ row \in [state: {"absent", "live", "deleted"}, text: Texts \cup {Blank},
                   edited: Stamps, source: Sources \cup {Nothing}]
        /\ row.text \in Texts
    BY DEF SlackType
  <2> HIDE DEF row
  <2> QED
    BY <2>1, <2>2, <2>3 DEF SlackType, LiveInv
<1>3. ASSUME NEW m \in Messages, DeleteMessage(m) PROVE SlackType'
  <2>1. message' = [message EXCEPT ![m] = [message[m] EXCEPT !.state = "deleted", !.text = Blank]]
    BY <1>3 DEF DeleteMessage, SlackType
  <2>2. UNCHANGED <<withdrawn, importing, imported, keyed>> /\ unheard' \subseteq unheard
    BY <1>3 DEF DeleteMessage, Queue
  <2> DEFINE row == [message[m] EXCEPT !.state = "deleted", !.text = Blank]
  <2>3. /\ row \in [state: {"absent", "live", "deleted"}, text: Texts \cup {Blank},
                   edited: Stamps, source: Sources \cup {Nothing}]
        /\ row.state # "live"
    BY DEF SlackType
  <2> HIDE DEF row
  <2> QED
    BY <2>1, <2>2, <2>3 DEF SlackType, LiveInv
<1>4. ASSUME NEW s \in Sources, TombstoneSource(s) PROVE SlackType'
  BY <1>4 DEF TombstoneSource, SlackType, LiveInv, slackVars
<1>5. ASSUME NEW s \in Sources, PropagateTombstone(s) PROVE SlackType'
  <2>1. message' = [m \in Messages |-> IF message[m].source = s THEN NoMessage ELSE message[m]]
    BY <1>5 DEF PropagateTombstone, WithoutMessages
  <2>2. /\ UNCHANGED <<importing, imported, keyed, unheard>>
        /\ withdrawn' = [withdrawn EXCEPT ![s] = "done"] \/ UNCHANGED withdrawn
    BY <1>5 DEF PropagateTombstone
  <2> QED
    BY <2>1, <2>2, KnowledgeAssumption DEF SlackType, LiveInv, NoMessage, Stamps
<1>6. ASSUME NEW b \in Bundles, ImportRead(b) PROVE SlackType'
  BY <1>6 DEF ImportRead, SlackType, LiveInv
<1>7. CASE ImportCommit
  <2> DEFINE b == importing
             Row(m) == IF m \in Created(b) \cup Updated(b)
                       THEN [state |-> "live", text |-> b.rows[m].text,
                             edited |-> b.rows[m].edited, source |-> b.source]
                       ELSE IF m \in Omitted(b)
                       THEN [message[m] EXCEPT !.state = "deleted", !.text = Blank]
                       ELSE message[m]
  <2>1. /\ message' = [m \in Messages |-> Row(m)] /\ importing' = Nothing
        /\ imported' = TRUE /\ UNCHANGED withdrawn
    BY <1>7 DEF ImportCommit
  <2>2. b \in Export
    BY <1>7, KnowledgeAssumption DEF ImportCommit, SlackType
  <2>3. ASSUME NEW m \in DOMAIN b.rows PROVE b.rows[m] \in [text: Texts, edited: Stamps]
    BY <2>2 DEF Export
  <2>4. ASSUME NEW m \in Messages
        PROVE  /\ Row(m) \in [state: {"absent", "live", "deleted"}, text: Texts \cup {Blank},
                              edited: Stamps, source: Sources \cup {Nothing}]
               /\ Row(m).state = "live" => Row(m).text \in Texts
    <3>1. m \in Created(b) \cup Updated(b) => m \in DOMAIN b.rows
      BY DEF Created, Updated
    <3>2. b.source \in Sources
      BY <2>2 DEF Export
    <3>3. CASE m \in Created(b) \cup Updated(b)
      BY <2>3, <3>1, <3>2, <3>3
    <3>4. CASE m \notin Created(b) \cup Updated(b)
      BY <3>4 DEF SlackType, LiveInv
    <3> QED
      BY <3>3, <3>4
  <2>5. keyed' \subseteq keyed \cup {b.source} /\ unheard' \subseteq {"change", "deletion"}
    BY <1>7 DEF ImportCommit, QueueOnce, Queue, Drop, Heard, SlackType
  <2>6. b.source \in Sources
    BY <2>2 DEF Export
  <2> HIDE DEF Row
  <2> QED
    BY <2>1, <2>4, <2>5, <2>6 DEF SlackType, LiveInv
<1>8. CASE Indexing
  <2>1. \/ \E j \in DOMAIN rag : IndexStart(j)
        \/ IndexLoad \/ IndexSources \/ IndexPublish \/ IndexEmbed \/ IndexProject
        \/ TombstoneMissing
    BY <1>8 DEF Indexing
  <2> QED
    BY <1>1, <2>1, Zenon
       DEF Untouched, slackVars, IndexStart, IndexLoad, IndexSources, IndexPublish, IndexEmbed,
           IndexProject, TombstoneMissing
<1>9. CASE \E c \in Consumers : Extracting(c) \/ ExtractFail(c)
  BY <1>1, <1>9, Zenon
     DEF Untouched, slackVars, Extracting, ExtractRead, MemoryCommit, GraphCommit, ExtractFail
<1>10. CASE IndexFail \/ \E v \in Reviewers : ApproveCommit(v)
  BY <1>1, <1>10, Zenon DEF Untouched, slackVars, IndexFail, ApproveCommit
<1>11. CASE \/ \E v \in Reviewers, n \in DOMAIN revs : ApproveRead(v, n)
            \/ \E n \in DOMAIN revs : RejectCandidate(n)
            \/ \E k \in DOMAIN memories : DeleteMemory(k)
  BY <1>1, <1>11, Zenon DEF Untouched, slackVars, ApproveRead, RejectCandidate, DeleteMemory
<1>12. CASE UNCHANGED vars
  BY <1>1, <1>12 DEF Untouched, vars
<1>13. CASE Api
  BY <1>2, <1>3, <1>4, <1>11, <1>13 DEF Api
<1> QED
  BY <1>5, <1>6, <1>7, <1>8, <1>9, <1>10, <1>12, <1>13 DEF Next

-----------------------------------------------------------------------------
LEMMA QueueType ==
  ASSUME WorkType, NEW kind \in Kinds, Queue(kind)
  PROVE  /\ rag' \in Seq(Job) /\ DOMAIN rag \subseteq DOMAIN rag'
         /\ \A j \in DOMAIN rag : rag'[j] = rag[j]
         /\ \A j \in DOMAIN rag' : rag'[j].state \in {"waiting", "running"} =>
                                     rag'[j].tries < MaxAttempts
<1> DEFINE e == [kind |-> kind, state |-> "waiting", tries |-> 0]
<1>1. e \in Job /\ e.tries < MaxAttempts /\ rag' = Append(rag, e)
  BY KnowledgeAssumption DEF Queue, Job
<1> HIDE DEF e
<1>2. /\ rag' \in Seq(Job) /\ DOMAIN rag' = 1 .. Len(rag) + 1
      /\ DOMAIN rag \subseteq DOMAIN rag' /\ rag'[Len(rag) + 1] = e
      /\ \A j \in DOMAIN rag : rag'[j] = rag[j]
  BY <1>1, Extended DEF WorkType
<1>3. DOMAIN rag = 1 .. Len(rag) /\ Len(rag) \in Nat
  BY LenProperties DEF WorkType
<1> QED
  BY <1>1, <1>2, <1>3 DEF WorkType, WorkInv

(* The state of one job changes, and the worker's place with it.           *)
LEMMA JobMoves ==
  ASSUME WorkType, NEW j \in DOMAIN rag, NEW row \in Job, rag' = [rag EXCEPT ![j] = row],
         row.state \in {"waiting", "running"} => row.tries < MaxAttempts,
         indexer' \in Indexer, faults' \in 0 .. MaxFaults,
         indexer'.pc # "idle" => indexer'.job = j /\ row.state = "running"
  PROVE  WorkType'
<1>1. /\ rag' \in Seq(Job) /\ DOMAIN rag' = DOMAIN rag
      /\ \A i \in DOMAIN rag : rag'[i] = IF i = j THEN row ELSE rag[i]
  BY Placed DEF WorkType
<1> QED
  BY <1>1 DEF WorkType, WorkInv

LEMMA JobEnds ==
  ASSUME WorkType, indexer.pc # "idle", NEW state \in {"done", "failed"}, IndexEnd(state),
         faults' \in 0 .. MaxFaults
  PROVE  WorkType'
<1> DEFINE j == indexer.job
           row == [rag[j] EXCEPT !.state = state]
<1>1. j \in DOMAIN rag /\ rag[j] \in Job
  BY ElementOfSeq, LenProperties DEF WorkType, WorkInv
<1>2. row \in Job /\ row.state = state
  BY <1>1 DEF Job
<1>3. rag' = [rag EXCEPT ![j] = row] /\ indexer' = IdleIndexer
  BY DEF IndexEnd
<1>4. IdleIndexer \in Indexer /\ IdleIndexer.pc = "idle"
  BY DEF IdleIndexer, Indexer
<1> HIDE DEF row
<1> QED
  BY <1>1, <1>2, <1>3, <1>4, JobMoves

LEMMA WorkSteps == ASSUME SlackType, WorkType, ChunkType, [Next]_vars PROVE WorkType'
<1>1. CASE UNCHANGED <<rag, indexer>> /\ faults' \in 0 .. MaxFaults
  BY <1>1 DEF WorkType, WorkInv
<1>2. CASE UNCHANGED <<rag, indexer, faults>>
  BY <1>2 DEF WorkType, WorkInv
<1>3. ASSUME NEW kind \in Kinds, Queue(kind), UNCHANGED <<indexer, faults>> PROVE WorkType'
  BY <1>3, QueueType DEF WorkType, WorkInv
<1>l. Current \in Nat /\ Content \subseteq Line /\ {message[m].source : m \in Live}
                                                     \subseteq Sources \cup {Nothing}
  <2>1. Current \in Nat
    BY LenProperties DEF ChunkType, Current
  <2>2. \A m \in Live : m \in Messages /\ message[m].text \in Texts
    BY DEF Live, SlackType, LiveInv
  <2> QED
    BY <2>1, <2>2 DEF Content, Live, Line, SlackType
<1>4. ASSUME NEW m \in Messages, NEW t \in Texts, NEW e \in Stamps, EditMessage(m, t, e)
      PROVE  WorkType'
  BY <1>3, <1>4 DEF EditMessage, workVars, Kinds
<1>5. ASSUME NEW m \in Messages, DeleteMessage(m) PROVE WorkType'
  BY <1>3, <1>5 DEF DeleteMessage, workVars, Kinds
<1>6. CASE ImportCommit
  BY <1>2, <1>3, <1>6 DEF ImportCommit, QueueOnce, Drop, TargetKind, workVars, Kinds
<1>7. ASSUME NEW j \in DOMAIN rag, IndexStart(j) PROVE WorkType'
  <2> DEFINE row == [rag[j] EXCEPT !.state = "running"]
             place == [IdleIndexer EXCEPT !.pc = "load", !.job = j]
  <2>1. rag[j] \in Job /\ j \in Nat
    BY ElementOfSeq, LenProperties DEF WorkType
  <2>2. rag[j].state = "waiting" /\ rag' = [rag EXCEPT ![j] = row] /\ indexer' = place
        /\ UNCHANGED faults
    BY <1>7 DEF IndexStart
  <2>3. row \in Job /\ row.state = "running" /\ row.tries = rag[j].tries
    BY <2>1 DEF Job
  <2>4. place \in Indexer /\ place.job = j
    BY <2>1 DEF IdleIndexer, Indexer
  <2>5. rag[j].tries < MaxAttempts
    BY <2>2 DEF WorkType, WorkInv
  <2> HIDE DEF row, place
  <2> QED
    BY <2>2, <2>3, <2>4, <2>5, JobMoves DEF WorkType
(* The worker goes on with its job.                                        *)
<1>8. ASSUME indexer' \in Indexer, indexer'.job = indexer.job, indexer.pc # "idle",
             UNCHANGED <<rag, faults>>
      PROVE  WorkType'
  BY <1>8 DEF WorkType, WorkInv
<1>9. CASE IndexLoad
  <2>1. indexer.pc = "load" /\ UNCHANGED faults
    BY <1>9 DEF IndexLoad
  <2>2. CASE IndexEnd("done")
    BY <2>1, <2>2, JobEnds DEF WorkType
  <2>3. CASE ~IndexEnd("done")
    <3> DEFINE from == {message[m].source : m \in Live}
               place == [indexer EXCEPT !.pc = IF Content = {} THEN "missing" ELSE "sources",
                                        !.read = Content, !.from = from]
    <3>1. indexer' = place /\ UNCHANGED rag
      BY <1>9, <2>3 DEF IndexLoad
    <3>2. from \subseteq Sources \cup {Nothing}
      BY <1>l
    <3> HIDE DEF from
    <3>3. place \in Indexer /\ place.job = indexer.job
      BY <1>l, <3>2 DEF WorkType, Indexer
    <3> QED
      BY <1>8, <2>1, <3>1, <3>3
  <2> QED
    BY <2>2, <2>3
<1>10. CASE IndexSources
  <2> DEFINE from == {s \in indexer.from : withdrawn[s] = "no"}
             place == [indexer EXCEPT !.pc = "publish", !.from = from]
  <2>1. indexer.pc = "sources" /\ indexer' = place /\ UNCHANGED <<rag, faults>>
    BY <1>10 DEF IndexSources
  <2>2. from \subseteq Sources \cup {Nothing}
    BY DEF WorkType, Indexer
  <2> HIDE DEF from
  <2>3. place \in Indexer /\ place.job = indexer.job
    BY <2>2 DEF WorkType, Indexer
  <2> QED
    BY <1>8, <2>1, <2>3
<1>11. CASE IndexPublish
  <2>1. PICK r \in Nat : /\ indexer' = [indexer EXCEPT !.pc = "embed", !.rev = r]
                         /\ indexer.pc = "publish" /\ UNCHANGED <<rag, faults>>
    <3> DEFINE r == IF Unchanged(indexer.read, indexer.from) THEN Current ELSE Current + 1
    <3>1. r \in Nat
      BY <1>l
    <3>2. indexer' = [indexer EXCEPT !.pc = "embed", !.rev = r]
      BY <1>11, Zenon DEF IndexPublish
    <3> QED
      BY <1>11, <3>1, <3>2 DEF IndexPublish
  <2>2. indexer' \in Indexer /\ indexer'.job = indexer.job
    BY <2>1 DEF WorkType, Indexer
  <2> QED
    BY <1>8, <2>1, <2>2
<1>12. CASE IndexEmbed
  <2>1. /\ indexer' = [indexer EXCEPT !.pc = "project"]
        /\ indexer.pc = "embed" /\ UNCHANGED <<rag, faults>>
    BY <1>12 DEF IndexEmbed
  <2>2. indexer' \in Indexer /\ indexer'.job = indexer.job
    BY <2>1 DEF WorkType, Indexer
  <2> QED
    BY <1>8, <2>1, <2>2
<1>13. CASE IndexProject \/ TombstoneMissing
  <2>1. indexer.pc # "idle" /\ IndexEnd("done") /\ UNCHANGED faults
    BY <1>13 DEF IndexProject, TombstoneMissing
  <2> QED
    BY <2>1, JobEnds DEF WorkType
<1>14. CASE IndexFail
  <2> DEFINE j == indexer.job
             row == [rag[j] EXCEPT !.tries = rag[j].tries + 1,
                       !.state = IF rag[j].tries + 1 = MaxAttempts THEN "failed" ELSE "waiting"]
  <2>1. j \in DOMAIN rag /\ rag[j] \in Job /\ rag[j].tries < MaxAttempts
    BY <1>14, ElementOfSeq, LenProperties DEF IndexFail, WorkType, WorkInv
  <2>2. row \in Job /\ (row.state # "failed" => row.tries < MaxAttempts)
        /\ row.state \in {"failed", "waiting"}
    <3>1. rag[j].tries + 1 \in 0 .. MaxAttempts
      BY <2>1, KnowledgeAssumption DEF Job
    <3>2. rag[j].tries + 1 # MaxAttempts => rag[j].tries + 1 < MaxAttempts
      BY <3>1, KnowledgeAssumption
    <3> QED
      BY <2>1, <3>1, <3>2 DEF Job
  <2>3. rag' = [rag EXCEPT ![j] = row]
    <3>1. rag' = [rag EXCEPT ![j].tries = rag[j].tries + 1,
               ![j].state = IF rag[j].tries + 1 = MaxAttempts THEN "failed" ELSE "waiting"]
      BY <1>14 DEF IndexFail
    <3> QED
      BY <2>1, <3>1 DEF WorkType, Job
  <2>4. indexer' = IdleIndexer /\ faults' \in 0 .. MaxFaults
    BY <1>14, KnowledgeAssumption DEF IndexFail, WorkType
  <2>5. IdleIndexer \in Indexer /\ IdleIndexer.pc = "idle"
    BY DEF IdleIndexer, Indexer
  <2> HIDE DEF row
  <2> QED
    BY <2>1, <2>2, <2>3, <2>4, <2>5, JobMoves
<1>15. CASE Indexing
  BY <1>7, <1>9, <1>10, <1>11, <1>12, <1>13, <1>15 DEF Indexing
<1>16. CASE \E s \in Sources : PropagateTombstone(s)
  <2>1. /\ UNCHANGED <<rag, indexer>>
        /\ (faults' = faults + 1 /\ faults < MaxFaults) \/ UNCHANGED faults
    BY <1>16 DEF PropagateTombstone, workVars
  <2> QED
    BY <1>1, <2>1, KnowledgeAssumption DEF WorkType
<1>17. CASE \E c \in Consumers : Extracting(c) \/ ExtractFail(c)
  <2>1. ASSUME NEW c \in Consumers, ExtractFail(c) PROVE WorkType'
    BY <1>1, <2>1, KnowledgeAssumption DEF ExtractFail, WorkType
  <2>2. ASSUME NEW c \in Consumers, Extracting(c) PROVE UNCHANGED <<rag, indexer, faults>>
    BY <2>2, Zenon DEF Extracting, ExtractRead, MemoryCommit, GraphCommit
  <2> QED
    BY <1>2, <1>17, <2>1, <2>2
<1>18. CASE \/ \E s \in Sources : TombstoneSource(s)
            \/ \E b \in Bundles : ImportRead(b)
            \/ \E v \in Reviewers : ApproveCommit(v)
            \/ \E v \in Reviewers, n \in DOMAIN revs : ApproveRead(v, n)
            \/ \E n \in DOMAIN revs : RejectCandidate(n)
            \/ \E k \in DOMAIN memories : DeleteMemory(k)
            \/ UNCHANGED vars
  BY <1>2, <1>18, Zenon
     DEF TombstoneSource, ImportRead, ApproveCommit, ApproveRead, RejectCandidate, DeleteMemory,
         vars, workVars
<1>19. CASE Api
  BY <1>4, <1>5, <1>18, <1>19 DEF Api
<1> QED
  BY <1>6, <1>14, <1>15, <1>16, <1>17, <1>18, <1>19 DEF Next

-----------------------------------------------------------------------------
(* Most steps leave old revisions and memories as empty, and as dead, as   *)
(* they were.  A revision a withdrawal has not erased may get a candidate. *)
Grown(i) ==
  LET r == revs[i] s == revs'[i] IN
  /\ s.tomb = r.tomb /\ s.promoted = r.promoted
  /\ i <= erased => /\ s.content \subseteq r.content /\ (s.filled => r.filled)
                    /\ (s.cand = "pending" => r.cand = "pending")
  /\ s.cand = "none" => r.cand = "none" /\ (s.filled => r.filled)
RevsGrow ==
  /\ revs' \in Seq(Revision) /\ Len(revs') >= Len(revs)
  /\ \A i \in DOMAIN revs : Grown(i)
  /\ \A i \in DOMAIN revs' \ DOMAIN revs : ~revs'[i].filled
MemoriesAge ==
  /\ memories' \in Seq(Memory) /\ DOMAIN memories' = DOMAIN memories
  /\ \A k \in DOMAIN memories :
       LET r == memories[k] s == memories'[k] IN
       s.rev = r.rev /\ (s.live => r.live) /\ (r.loose => s.loose)
Reads(c) ==
  \/ extractor'[c] = extractor[c]
  \/ extractor'[c].pc = "idle"
  \/ /\ extractor'[c].rev \in DOMAIN revs
     /\ extractor'[c].live => ~revs[extractor'[c].rev].tomb

LEMMA SteadyRevs == ASSUME ChunkType, UNCHANGED revs PROVE RevsGrow
BY LenProperties DEF ChunkType, RevsGrow, Grown

LEMMA SteadyMemories == ASSUME ChunkType, UNCHANGED memories PROVE MemoriesAge
BY DEF ChunkType, MemoriesAge

LEMMA GrowthKeeps ==
  ASSUME ChunkType, ErasureInv, RevsGrow, MemoriesAge, UNCHANGED erased,
         \A c \in Consumers : Reads(c)
  PROVE  ErasureInv'
<1>1. /\ DOMAIN revs = 1 .. Len(revs) /\ DOMAIN revs' = 1 .. Len(revs')
      /\ Len(revs) \in Nat /\ Len(revs') \in Nat /\ erased \in 0 .. Len(revs)
  BY LenProperties DEF ChunkType, RevsGrow, Current
<1>2. DOMAIN revs \subseteq DOMAIN revs'
  BY <1>1 DEF RevsGrow
<1>3. EmptyInv'
  <2>1. ASSUME NEW i \in 1 .. erased
        PROVE  revs'[i].content = {} /\ ~revs'[i].filled /\ revs'[i].cand # "pending"
    BY <1>1 DEF ErasureInv, EmptyInv, RevsGrow, Grown
  <2>2. erased # 0 => revs'[erased].tomb
    BY <1>1 DEF ErasureInv, EmptyInv, RevsGrow, Grown
  <2>3. ASSUME NEW i \in DOMAIN revs' PROVE revs'[i].cand = "none" => ~revs'[i].filled
    BY DEF ErasureInv, EmptyInv, RevsGrow, Grown
  <2> QED
    BY <2>1, <2>2, <2>3 DEF EmptyInv
<1>4. ReaderInv'
  <2> SUFFICES ASSUME NEW c \in Consumers, extractor'[c].pc = "read"
               PROVE  /\ extractor'[c].rev \in DOMAIN revs'
                      /\ extractor'[c].live => ~revs'[extractor'[c].rev].tomb
    BY DEF ReaderInv
  <2>1. /\ extractor'[c].rev \in DOMAIN revs
        /\ extractor'[c].live => ~revs[extractor'[c].rev].tomb
    BY DEF Reads, ErasureInv, ReaderInv
  <2> QED
    BY <1>2, <2>1 DEF RevsGrow, Grown
<1>5. MemoryInv'
  BY <1>2 DEF MemoriesAge, RevsGrow, Grown, ErasureInv, MemoryInv
<1> QED
  BY <1>3, <1>4, <1>5 DEF ErasureInv

(* Every revision goes through a step of its own.                          *)
LEMMA AllGrow ==
  ASSUME ChunkType,
         revs' \in [DOMAIN revs -> Revision],
         \A i \in DOMAIN revs : Kept(revs[i], revs'[i])
  PROVE  RevsGrow /\ Len(revs') = Len(revs)
<1>1. revs' \in Seq(Revision) /\ Len(revs') = Len(revs) /\ DOMAIN revs' = DOMAIN revs
  BY Mapped DEF ChunkType
<1> QED
  BY <1>1, LenProperties DEF RevsGrow, Grown, Kept, ChunkType

LEMMA OneGrows ==
  ASSUME ChunkType, NEW i, NEW e \in Revision, revs' = [revs EXCEPT ![i] = e],
         i \in DOMAIN revs => Kept(revs[i], e)
  PROVE  RevsGrow /\ Len(revs') = Len(revs)
<1>1. CASE i \in DOMAIN revs
  <2>1. /\ revs' \in Seq(Revision) /\ Len(revs') = Len(revs) /\ DOMAIN revs' = DOMAIN revs
        /\ \A j \in DOMAIN revs : revs'[j] = IF j = i THEN e ELSE revs[j]
    BY <1>1, Placed DEF ChunkType
  <2> QED
    BY <1>1, <2>1, LenProperties DEF RevsGrow, Grown, Kept, ChunkType
<1>2. CASE i \notin DOMAIN revs
  <2>1. revs' = revs
    BY <1>2, LenProperties DEF ChunkType
  <2> QED
    BY <2>1, SteadyRevs
<1> QED
  BY <1>1, <1>2

LEMMA OneMoreGrows ==
  ASSUME ChunkType, NEW e \in Revision, revs' = Append(revs, e), ~e.filled
  PROVE  RevsGrow /\ Len(revs') = Len(revs) + 1
<1>1. /\ revs' \in Seq(Revision) /\ Len(revs') = Len(revs) + 1
      /\ DOMAIN revs' = 1 .. Len(revs) + 1
      /\ \A j \in DOMAIN revs : revs'[j] = revs[j]
      /\ revs'[Len(revs) + 1] = e
  BY Extended DEF ChunkType
<1>2. Len(revs) \in Nat /\ DOMAIN revs = 1 .. Len(revs)
  BY LenProperties DEF ChunkType
<1> QED
  BY <1>1, <1>2 DEF RevsGrow, Grown

LEMMA MemoriesMapped ==
  ASSUME ChunkType, memories' \in [DOMAIN memories -> Memory],
         \A k \in DOMAIN memories :
           LET r == memories[k] s == memories'[k] IN
           s.rev = r.rev /\ (s.live => r.live) /\ (r.loose => s.loose)
  PROVE  MemoriesAge
BY Mapped DEF ChunkType, MemoriesAge

LEMMA Killed ==
  ASSUME ChunkType, NEW K, NEW blank \in BOOLEAN, KillMemories(K, blank)
  PROVE  /\ MemoriesAge
         /\ \A k \in DOMAIN memories : /\ memories'[k].loose = memories[k].loose
                                       /\ k \in K => ~memories'[k].live
<1> DEFINE f(k) == IF k \in K
              THEN [memories[k] EXCEPT !.live = FALSE,
                                       !.filled = IF blank THEN FALSE ELSE memories[k].filled]
              ELSE memories[k]
<1>1. memories' = [k \in DOMAIN memories |-> f(k)]
  BY DEF KillMemories
<1>2. ASSUME NEW k \in DOMAIN memories
      PROVE  /\ f(k) \in Memory /\ f(k).rev = memories[k].rev
             /\ (f(k).live => memories[k].live) /\ f(k).loose = memories[k].loose
             /\ k \in K => ~f(k).live
  <2>1. memories[k] \in Memory
    BY ElementOfSeq, LenProperties DEF ChunkType
  <2>2. CASE k \in K
    <3> DEFINE b == IF blank THEN FALSE ELSE memories[k].filled
    <3>1. b \in BOOLEAN
      BY <2>1 DEF Memory
    <3>2. f(k) = [memories[k] EXCEPT !.live = FALSE, !.filled = b]
      BY <2>2
    <3> HIDE DEF b, f
    <3> QED
      BY <2>1, <3>1, <3>2 DEF Memory
  <2>3. CASE k \notin K
    BY <2>1, <2>3
  <2> QED
    BY <2>2, <2>3
<1> HIDE DEF f
<1> QED
  BY <1>1, <1>2, MemoriesMapped

LEMMA LooseAge ==
  ASSUME ChunkType, NEW K, memories' = Loosened(K)
  PROVE  /\ MemoriesAge
         /\ \A k \in DOMAIN memories \cap K : memories'[k].loose
<1> DEFINE f(k) == IF k \in K THEN [memories[k] EXCEPT !.loose = TRUE] ELSE memories[k]
<1>1. memories' = [k \in DOMAIN memories |-> f(k)]
  BY DEF Loosened
<1>2. ASSUME NEW k \in DOMAIN memories
      PROVE  /\ f(k) \in Memory /\ f(k).rev = memories[k].rev
             /\ f(k).live = memories[k].live /\ (memories[k].loose => f(k).loose)
             /\ k \in K => f(k).loose
  <2>1. memories[k] \in Memory
    BY ElementOfSeq, LenProperties DEF ChunkType
  <2> QED
    BY <2>1 DEF Memory
<1> HIDE DEF f
<1> QED
  BY <1>1, <1>2, MemoriesMapped

LEMMA ChunkGrows ==
  ASSUME ChunkType, ErasureInv, RevsGrow, MemoriesAge, UNCHANGED erased,
         chunk' \in [hidden: BOOLEAN, text: SUBSET Line],
         vector' \in 0 .. Len(revs'), extractor' \in [Consumers -> Extractor],
         \A c \in Consumers : Reads(c), reviewer' \in [Reviewers -> 0 .. Len(revs')]
  PROVE  ChunkType' /\ ErasureInv'
<1>1. Len(revs) \in Nat /\ Len(revs') \in Nat /\ Len(revs') >= Len(revs)
  BY LenProperties DEF ChunkType, RevsGrow
<1>2. ChunkType'
  BY <1>1 DEF ChunkType, RevsGrow, MemoriesAge, Current
<1> QED
  BY <1>2, GrowthKeeps

(* In most steps no extractor or reviewer moves.                           *)
LEMMA WorkGrows ==
  ASSUME ChunkType, ErasureInv, RevsGrow, MemoriesAge, UNCHANGED <<erased, extractor, reviewer>>,
         chunk' \in [hidden: BOOLEAN, text: SUBSET Line], vector' \in 0 .. Len(revs')
  PROVE  ChunkType' /\ ErasureInv'
<1>1. Len(revs) \in Nat /\ Len(revs') \in Nat /\ Len(revs') >= Len(revs)
  BY LenProperties DEF ChunkType, RevsGrow
<1>2. reviewer' \in [Reviewers -> 0 .. Len(revs')]
  BY <1>1 DEF ChunkType, Current
<1>3. extractor' \in [Consumers -> Extractor] /\ \A c \in Consumers : Reads(c)
  BY DEF ChunkType, Reads
<1> QED
  BY <1>2, <1>3, ChunkGrows

LEMMA ChunkStays ==
  ASSUME ChunkType, ErasureInv, UNCHANGED <<chunkVars, erased, extractor, reviewer>>
  PROVE  ChunkType' /\ ErasureInv'
BY SteadyRevs, SteadyMemories, WorkGrows DEF chunkVars, ChunkType, Current

(* The index worker.                                                       *)
LEMMA IndexingKeeps ==
  ASSUME SlackType, WorkType, ChunkType, ErasureInv, Indexing
  PROVE  ChunkType' /\ ErasureInv'
<1>l. /\ Len(revs) \in Nat /\ DOMAIN revs = 1 .. Len(revs) /\ Current = Len(revs)
      /\ \A i \in DOMAIN revs : revs[i] \in Revision
      /\ \A r \in Revision : Kept(r, r)
      /\ vector \in 0 .. Len(revs) /\ erased \in 0 .. Len(revs)
  BY LenProperties, ElementOfSeq DEF ChunkType, Current, Kept
<1>c. chunk \in [hidden: BOOLEAN, text: SUBSET Line]
  BY DEF ChunkType
<1>j. indexer.job \in Nat /\ indexer.read \subseteq Line
      /\ indexer.from \subseteq Sources \cup {Nothing}
  BY DEF WorkType, Indexer
<1>1. ASSUME NEW j \in DOMAIN rag, IndexStart(j) PROVE ChunkType' /\ ErasureInv'
  <2>1. UNCHANGED <<erased, extractor, reviewer>> /\ (Prepare(j) \/ UNCHANGED chunkVars)
    BY <1>1 DEF IndexStart
  <2>2. CASE UNCHANGED chunkVars
    BY <2>1, <2>2, ChunkStays
  <2>3. CASE Prepare(j) /\ revs # <<>>
    <3> DEFINE f(i) == IF i \in Affected(j) THEN Invalidate(revs[i], rag[j].kind) ELSE revs[i]
    <3>1. /\ revs' = [i \in DOMAIN revs |-> f(i)]
          /\ KillMemories(Promoted(Affected(j)), rag[j].kind = "deleted")
          /\ vector' = 0 /\ chunk' = [chunk EXCEPT !.hidden = TRUE]
      BY <2>3 DEF Prepare
    <3>2. \A i \in DOMAIN revs : f(i) \in Revision /\ Kept(revs[i], f(i))
      BY <1>l, Invalidated
    <3> HIDE DEF f
    <3>3. RevsGrow /\ Len(revs') = Len(revs)
      BY <3>1, <3>2, AllGrow
    <3>4. MemoriesAge
      BY <3>1, Killed
    <3>5. chunk' \in [hidden: BOOLEAN, text: SUBSET Line]
      BY <1>c, <3>1
    <3>6. vector' \in 0 .. Len(revs')
      BY <1>l, <3>1, <3>3
    <3> QED
      BY <2>1, <3>3, <3>4, <3>5, <3>6, WorkGrows
  <2>4. CASE Prepare(j) /\ revs = <<>>
    BY <2>1, <2>4, ChunkStays DEF Prepare
  <2> QED
    BY <2>1, <2>2, <2>3, <2>4
<1>2. CASE IndexLoad \/ IndexSources
  BY <1>2, ChunkStays, Zenon DEF IndexLoad, IndexSources
<1>3. CASE IndexPublish
  <2> DEFINE by == IF Targeted(indexer.job) THEN {indexer.job} ELSE {}
             same == Unchanged(indexer.read, indexer.from)
  <2>1. /\ chunk' = [hidden |-> FALSE, text |-> indexer.read]
        /\ revs' = IF same THEN [revs EXCEPT ![Current].jobs = @ \cup by]
                   ELSE Append(revs, NewRev(indexer.read, indexer.from, FALSE, by))
        /\ UNCHANGED <<vector, memories, extractor, reviewer, erased>>
    BY <1>3 DEF IndexPublish
  <2>2. by \subseteq Nat
    BY <1>j
  <2>3. RevsGrow /\ Len(revs') >= Len(revs)
    <3>1. CASE same
      <4>1. Current \in DOMAIN revs
        BY <1>l, <3>1, EmptySeq DEF Unchanged, ChunkType
      <4> DEFINE e == [revs[Current] EXCEPT !.jobs = revs[Current].jobs \cup by]
      <4>2. revs[Current].jobs \cup by \in SUBSET Nat
        BY <1>l, <2>2, <4>1 DEF Revision
      <4> HIDE DEF by
      <4>3. e \in Revision /\ Kept(revs[Current], e)
        BY <1>l, <4>1, <4>2, Touched
      <4>4. revs' = [revs EXCEPT ![Current] = e]
        BY <2>1, <3>1
      <4> HIDE DEF e
      <4>5. RevsGrow /\ Len(revs') = Len(revs)
        BY <4>3, <4>4, OneGrows
      <4> QED
        BY <1>l, <4>5
    <3>2. CASE ~same
      <4> DEFINE e == NewRev(indexer.read, indexer.from, FALSE, by)
      <4>1. e \in Revision /\ ~e.filled
        BY <1>j, <2>2, NewRevType
      <4>2. revs' = Append(revs, e)
        BY <2>1, <3>2
      <4> HIDE DEF e
      <4> QED
        BY <1>l, <4>1, <4>2, OneMoreGrows
    <3> QED
      BY <3>1, <3>2
  <2>4. chunk' \in [hidden: BOOLEAN, text: SUBSET Line]
    BY <1>j, <2>1
  <2>5. vector' \in 0 .. Len(revs')
    BY <1>l, <2>1, <2>3, LenProperties DEF RevsGrow
  <2> QED
    BY <2>1, <2>3, <2>4, <2>5, SteadyMemories, WorkGrows
<1>4. CASE IndexEmbed
  <2> DEFINE i == indexer.rev
             e == [revs[i] EXCEPT !.embedded = TRUE]
  <2>1. revs' = [revs EXCEPT ![i] = e] /\ UNCHANGED <<chunk, vector, memories, extractor, reviewer, erased>>
    BY <1>4 DEF IndexEmbed
  <2>2. RevsGrow /\ Len(revs') = Len(revs)
    <3>1. CASE i \in DOMAIN revs
      <4>1. e \in Revision /\ Kept(revs[i], e)
        BY <1>l, <3>1, Touched
      <4> HIDE DEF e, i
      <4> QED
        BY <2>1, <4>1, OneGrows
    <3>2. CASE i \notin DOMAIN revs
      <4>1. revs' = revs
        BY <1>l, <2>1, <3>2, LenProperties DEF ChunkType
      <4> QED
        BY <4>1, SteadyRevs
    <3> QED
      BY <3>1, <3>2
  <2> QED
    BY <1>l, <2>1, <2>2, SteadyMemories, WorkGrows DEF ChunkType
<1>5. CASE IndexProject
  <2>1. UNCHANGED <<chunk, memories, extractor, reviewer, erased>>
    BY <1>5 DEF IndexProject
  <2>2. CASE ~IsPublishable
    <3>1. UNCHANGED chunkVars
      BY <1>5, <2>1, <2>2 DEF IndexProject, chunkVars
    <3> QED
      BY <2>1, <3>1, ChunkStays
  <2>3. CASE IsPublishable
    <3> DEFINE i == indexer.rev
               e == Announce(revs[i])
    <3>1. i = Current /\ vector' = i /\ revs' = [revs EXCEPT ![i] = e]
      BY <1>5, <2>3 DEF IndexProject, IsPublishable
    <3>2. RevsGrow /\ Len(revs') = Len(revs)
      <4>1. CASE i \in DOMAIN revs
        <5>1. e \in Revision /\ Kept(revs[i], e)
          BY <1>l, <4>1, Announced
        <5> HIDE DEF e, i
        <5> QED
          BY <3>1, <5>1, OneGrows
      <4>2. CASE i \notin DOMAIN revs
        <5>1. revs' = revs
          BY <1>l, <3>1, <4>2, LenProperties DEF ChunkType
        <5> QED
          BY <5>1, SteadyRevs
      <4> QED
        BY <4>1, <4>2
    <3>3. vector' \in 0 .. Len(revs')
      BY <1>l, <3>1, <3>2
    <3> QED
      BY <2>1, <3>2, <3>3, SteadyMemories, WorkGrows DEF ChunkType
  <2> QED
    BY <2>2, <2>3
<1>6. CASE TombstoneMissing
  <2>1. UNCHANGED <<vector, memories, extractor, reviewer, erased>>
    BY <1>6 DEF TombstoneMissing
  <2>2. CASE revs = <<>>
    <3>1. UNCHANGED chunkVars
      BY <1>6, <2>1, <2>2 DEF TombstoneMissing, chunkVars
    <3> QED
      BY <2>1, <3>1, ChunkStays
  <2>3. CASE revs # <<>>
    <3>1. /\ revs' = Bury(revs, {indexer.job})
          /\ chunk' = IF revs[Current].tomb THEN chunk ELSE [hidden |-> TRUE, text |-> {}]
      BY <1>6, <2>3 DEF TombstoneMissing
    <3>2. {indexer.job} \in SUBSET Nat /\ revs \in Seq(Revision)
      BY <1>j DEF ChunkType
    <3>3. /\ revs' \in Seq(Revision) /\ Len(revs') >= Len(revs)
          /\ \A i \in DOMAIN revs : Kept(revs[i], revs'[i])
          /\ \A i \in DOMAIN revs' \ DOMAIN revs : ~revs'[i].filled
      BY <2>3, <3>1, <3>2, Buried
    <3>4. RevsGrow
      BY <3>3 DEF RevsGrow, Grown, Kept
    <3>5. chunk' \in [hidden: BOOLEAN, text: SUBSET Line]
      BY <3>1 DEF ChunkType
    <3>6. vector' \in 0 .. Len(revs')
      BY <1>l, <2>1, <3>3, LenProperties
    <3> QED
      BY <2>1, <3>4, <3>5, <3>6, SteadyMemories, WorkGrows
  <2> QED
    BY <2>2, <2>3
<1> QED
  BY <1>1, <1>2, <1>3, <1>4, <1>5, <1>6 DEF Indexing

(* The extractors.  A derivation writes to a revision that is current and  *)
(* was served when it was read: no withdrawal has ended in it.             *)
LEMMA DerivedGrows ==
  ASSUME NEW r \in Revision
  PROVE  LET s == Derive(r) IN
         /\ s \in Revision /\ s.tomb = r.tomb /\ s.promoted = r.promoted
         /\ s.content = r.content /\ s.cand # "none"
BY DEF Derive, Revision

LEMMA MemoryCommitKeeps ==
  ASSUME ChunkType, ErasureInv, "memory" \in Consumers, MemoryCommit
  PROVE  ChunkType' /\ ErasureInv'
<1> DEFINE x == extractor["memory"]
           stale == Stale(x.rev, x.erase)
           step(i) == IF i \in stale THEN RejectRev(revs[i], x.erase)
                      ELSE IF i = x.rev /\ x.live THEN Derive(revs[i]) ELSE revs[i]
           kept(i) == IF StillCurrent("memory") THEN step(i) ELSE revs[i]
           new(i) == IF i = x.rev THEN [kept(i) EXCEPT !.ready["memory"] = "done"]
                     ELSE kept(i)
<1>l. /\ Len(revs) \in Nat /\ DOMAIN revs = 1 .. Len(revs) /\ Current = Len(revs)
      /\ \A i \in DOMAIN revs : revs[i] \in Revision
      /\ \A r \in Revision : Kept(r, r)
      /\ vector \in 0 .. Len(revs) /\ erased \in 0 .. Len(revs)
      /\ x \in Extractor
  BY LenProperties, ElementOfSeq DEF ChunkType, Current, Kept
<1>1. /\ x.pc = "read" /\ revs' = [i \in DOMAIN revs |-> new(i)]
      /\ IF StillCurrent("memory") THEN KillMemories(Promoted(stale), x.erase)
         ELSE UNCHANGED memories
      /\ extractor' = [extractor EXCEPT !["memory"] = IdleExtractor]
      /\ UNCHANGED <<chunk, vector, reviewer, erased>>
  BY DEF MemoryCommit
<1>2. x.rev \in DOMAIN revs /\ (x.live => ~revs[x.rev].tomb)
  BY <1>1 DEF ErasureInv, ReaderInv
<1>3. StillCurrent("memory") /\ x.live => x.rev > erased
  BY <1>l, <1>2 DEF StillCurrent, ErasureInv, EmptyInv
<1>4. x.erase \in BOOLEAN
  BY <1>l DEF Extractor
<1> DEFINE ok(i, s) == /\ s \in Revision /\ s.tomb = revs[i].tomb /\ s.promoted = revs[i].promoted
                       /\ i <= erased => Kept(revs[i], s)
                       /\ s.cand = "none" => Kept(revs[i], s)
<1>5. ASSUME NEW i \in DOMAIN revs PROVE ok(i, kept(i))
  <2>1. CASE ~StillCurrent("memory")
    BY <1>l, <2>1 DEF Kept
  <2>2. CASE StillCurrent("memory") /\ i \in stale
    <3>1. kept(i) = RejectRev(revs[i], x.erase)
      BY <2>2
    <3> HIDE DEF kept
    <3> QED
      BY <1>l, <1>4, <3>1, Rejected DEF Kept
  <2>3. CASE StillCurrent("memory") /\ i \notin stale /\ i = x.rev /\ x.live
    <3>1. kept(i) = Derive(revs[i]) /\ i > erased
      BY <1>3, <2>3
    <3> HIDE DEF kept
    <3> QED
      BY <1>l, <3>1, DerivedGrows
  <2>4. CASE StillCurrent("memory") /\ i \notin stale /\ ~(i = x.rev /\ x.live)
    BY <1>l, <2>4 DEF Kept
  <2> QED
    BY <2>1, <2>2, <2>3, <2>4
<1> HIDE DEF kept
<1>6. ASSUME NEW i \in DOMAIN revs PROVE ok(i, new(i))
  <2>1. kept(i) \in Revision
    BY <1>5
  <2>2. new(i) \in Revision /\ Kept(kept(i), new(i))
    <3>1. CASE i = x.rev
      <4>1. new(i) = [kept(i) EXCEPT !.ready["memory"] = "done"]
        BY <3>1
      <4> HIDE DEF new
      <4> QED
        BY <2>1, <4>1, Touched
    <3>2. CASE i # x.rev
      BY <2>1, <3>2 DEF Kept
    <3> QED
      BY <3>1, <3>2
  <2> HIDE DEF new
  <2> QED
    BY <1>5, <2>2 DEF Kept
<1> HIDE DEF new
<1>7. revs' \in Seq(Revision) /\ Len(revs') = Len(revs) /\ DOMAIN revs' = DOMAIN revs
  <2>1. revs' \in [DOMAIN revs -> Revision]
    BY <1>1, <1>6
  <2> QED
    BY <2>1, Mapped DEF ChunkType
<1>8. RevsGrow
  <2>1. ASSUME NEW i \in DOMAIN revs PROVE Grown(i)
    <3>1. revs'[i] = new(i)
      BY <1>1
    <3> QED
      BY <1>6, <3>1 DEF Grown, Kept
  <2> QED
    BY <1>l, <1>7, <2>1 DEF RevsGrow
<1>9. MemoriesAge
  BY <1>1, <1>4, Killed, SteadyMemories
<1>10. extractor' \in [Consumers -> Extractor] /\ \A c \in Consumers : Reads(c)
  BY <1>1 DEF ChunkType, Reads, IdleExtractor, Extractor
<1>11. vector' \in 0 .. Len(revs') /\ reviewer' \in [Reviewers -> 0 .. Len(revs')]
  BY <1>l, <1>1, <1>7 DEF ChunkType
<1> QED
  BY <1>1, <1>8, <1>9, <1>10, <1>11, ChunkGrows DEF ChunkType

LEMMA GraphCommitKeeps ==
  ASSUME ChunkType, ErasureInv, "graph" \in Consumers, GraphCommit
  PROVE  ChunkType' /\ ErasureInv'
<1> DEFINE x == extractor["graph"]
           close(r) == IF r.mention = "open" THEN [r EXCEPT !.mention = "closed"] ELSE r
           open(r) == IF x.live /\ r.mention = "none" THEN [r EXCEPT !.mention = "open"] ELSE r
           step(i) == IF i # x.rev THEN close(revs[i])
                      ELSE open(IF chunk.hidden THEN close(revs[i]) ELSE revs[i])
           kept(i) == IF StillCurrent("graph") THEN step(i) ELSE revs[i]
           new(i) == IF i = x.rev THEN [kept(i) EXCEPT !.ready["graph"] = "done"]
                     ELSE kept(i)
<1>l. /\ Len(revs) \in Nat /\ DOMAIN revs = 1 .. Len(revs) /\ Current = Len(revs)
      /\ \A i \in DOMAIN revs : revs[i] \in Revision
      /\ vector \in 0 .. Len(revs) /\ erased \in 0 .. Len(revs)
  BY LenProperties, ElementOfSeq DEF ChunkType, Current
<1>k. \A r \in Revision : Kept(r, r)
  BY DEF Kept
<1>1. /\ revs' = [i \in DOMAIN revs |-> new(i)] /\ UNCHANGED memories
      /\ extractor' = [extractor EXCEPT !["graph"] = IdleExtractor]
      /\ UNCHANGED <<chunk, vector, reviewer, erased>>
  BY DEF GraphCommit
<1>2. \A r \in Revision : close(r) \in Revision /\ Kept(r, close(r))
  BY <1>k, Touched
<1>3. \A r \in Revision : open(r) \in Revision /\ Kept(r, open(r))
  BY <1>k, Touched
<1> HIDE DEF close, open
<1>4. ASSUME NEW i \in DOMAIN revs PROVE kept(i) \in Revision /\ Kept(revs[i], kept(i))
  <2>1. step(i) \in Revision /\ Kept(revs[i], step(i))
    BY <1>l, <1>2, <1>3 DEF Kept
  <2> HIDE DEF step
  <2> QED
    BY <1>l, <1>k, <2>1
<1> HIDE DEF kept
<1>5. ASSUME NEW i \in DOMAIN revs PROVE new(i) \in Revision /\ Kept(revs[i], new(i))
  <2>1. CASE i = x.rev
    <3>1. new(i) = [kept(i) EXCEPT !.ready["graph"] = "done"]
      BY <2>1
    <3> HIDE DEF new
    <3>2. new(i) \in Revision /\ Kept(kept(i), new(i))
      BY <1>4, <3>1, Touched
    <3> QED
      BY <1>4, <3>2 DEF Kept
  <2>2. CASE i # x.rev
    BY <1>4, <2>2
  <2> QED
    BY <2>1, <2>2
<1> HIDE DEF new
<1>6. RevsGrow /\ Len(revs') = Len(revs)
  BY <1>1, <1>5, AllGrow
<1>7. extractor' \in [Consumers -> Extractor] /\ \A c \in Consumers : Reads(c)
  BY <1>1 DEF ChunkType, Reads, IdleExtractor, Extractor
<1>8. vector' \in 0 .. Len(revs') /\ reviewer' \in [Reviewers -> 0 .. Len(revs')]
  BY <1>l, <1>1, <1>6 DEF ChunkType
<1> QED
  BY <1>1, <1>6, <1>7, <1>8, SteadyMemories, ChunkGrows DEF ChunkType

LEMMA ExtractReadKeeps ==
  ASSUME ChunkType, ErasureInv, NEW c \in Consumers, NEW n \in DOMAIN revs, ExtractRead(c, n)
  PROVE  ChunkType' /\ ErasureInv'
<1>l. /\ Len(revs) \in Nat /\ DOMAIN revs = 1 .. Len(revs) /\ revs[n] \in Revision
      /\ vector \in 0 .. Len(revs) /\ n \in Nat
  BY LenProperties, ElementOfSeq DEF ChunkType, Current
<1>1. UNCHANGED <<chunk, vector, memories, reviewer, erased>>
  BY DEF ExtractRead
<1>2. CASE n # Current
  <2> DEFINE e == [revs[n] EXCEPT !.ready[c] = "done"]
  <2>1. revs' = [revs EXCEPT ![n] = e] /\ UNCHANGED extractor
    BY <1>2 DEF ExtractRead
  <2>2. e \in Revision /\ Kept(revs[n], e)
    BY <1>l, Touched
  <2> HIDE DEF e
  <2>3. RevsGrow /\ Len(revs') = Len(revs)
    BY <2>1, <2>2, OneGrows
  <2> QED
    BY <1>l, <1>1, <2>1, <2>3, SteadyMemories, WorkGrows DEF ChunkType
<1>3. CASE n = Current
  <2> DEFINE place == [pc |-> "read", rev |-> n,
                       live |-> ~chunk.hidden /\ ~revs[n].gone /\ ~revs[n].tomb,
                       erase |-> revs[n].tomb \/ revs[n].gone]
  <2>1. extractor' = [extractor EXCEPT ![c] = place] /\ UNCHANGED revs
    BY <1>3 DEF ExtractRead
  <2>2. place \in Extractor /\ place.rev = n /\ (place.live => ~revs[n].tomb)
    BY <1>l DEF ChunkType, Revision, Extractor
  <2> HIDE DEF place
  <2>3. extractor' \in [Consumers -> Extractor] /\ \A d \in Consumers : Reads(d)
    BY <2>1, <2>2 DEF ChunkType, Reads
  <2>4. vector' \in 0 .. Len(revs') /\ reviewer' \in [Reviewers -> 0 .. Len(revs')]
    BY <1>l, <1>1, <2>1 DEF ChunkType, Current
  <2> QED
    BY <1>1, <2>1, <2>3, <2>4, SteadyRevs, SteadyMemories, ChunkGrows DEF ChunkType
<1> QED
  BY <1>2, <1>3

LEMMA ExtractFailKeeps ==
  ASSUME ChunkType, ErasureInv, NEW c \in Consumers, ExtractFail(c)
  PROVE  ChunkType' /\ ErasureInv'
<1>1. UNCHANGED <<chunk, revs, vector, memories, reviewer, erased>>
  BY DEF ExtractFail, chunkVars
<1>2. extractor' \in [Consumers -> Extractor] /\ \A d \in Consumers : Reads(d)
  BY DEF ExtractFail, ChunkType, Reads, IdleExtractor, Extractor
<1>3. vector' \in 0 .. Len(revs') /\ reviewer' \in [Reviewers -> 0 .. Len(revs')]
  BY <1>1 DEF ChunkType, Current
<1> QED
  BY <1>1, <1>2, <1>3, SteadyRevs, SteadyMemories, ChunkGrows DEF ChunkType

-----------------------------------------------------------------------------
(* People.  An approval of an erased candidate finds it rejected, and makes *)
(* a loose memory.                                                         *)
LEMMA ApproveKeeps ==
  ASSUME ChunkType, ErasureInv, NEW v \in Reviewers, ApproveCommit(v)
  PROVE  ChunkType' /\ ErasureInv'
<1> DEFINE n == reviewer[v]
           new == [rev |-> n, live |-> TRUE, filled |-> TRUE,
                   loose |-> revs[n].cand # "pending"]
           old == Loosened({revs[n].promoted})
           last == Len(memories) + 1
           e == [revs[n] EXCEPT !.cand = "approved", !.promoted = last]
<1>l. /\ Len(revs) \in Nat /\ DOMAIN revs = 1 .. Len(revs)
      /\ DOMAIN memories = 1 .. Len(memories) /\ Len(memories) \in Nat
      /\ reviewer[v] \in 0 .. Len(revs) /\ erased \in 0 .. Len(revs)
      /\ vector \in 0 .. Len(revs)
      /\ \A k \in DOMAIN memories : memories[k] \in Memory
  BY LenProperties, ElementOfSeq DEF ChunkType, Current
<1>1. /\ n # 0 /\ memories' = Append(old, new)
      /\ revs' = [revs EXCEPT ![n].cand = "approved", ![n].promoted = Len(memories) + 1]
      /\ reviewer' = [reviewer EXCEPT ![v] = 0]
      /\ UNCHANGED <<chunk, vector, extractor, erased>>
  BY DEF ApproveCommit
<1>2. n \in DOMAIN revs /\ revs[n] \in Revision
  BY <1>l, <1>1, ElementOfSeq DEF ChunkType
<1>3. /\ e \in Revision /\ e.cand = "approved" /\ e.promoted = last
      /\ e.tomb = revs[n].tomb /\ e.content = revs[n].content /\ e.filled = revs[n].filled
  <2>1. last \in Nat
    BY <1>l
  <2> HIDE DEF last
  <2> QED
    BY <1>2, <2>1 DEF Revision
<1>4. revs' = [revs EXCEPT ![n] = e]
  BY <1>1, <1>2 DEF ChunkType
<1> HIDE DEF e
<1>5. /\ revs' \in Seq(Revision) /\ Len(revs') = Len(revs) /\ DOMAIN revs' = DOMAIN revs
      /\ \A i \in DOMAIN revs : revs'[i] = IF i = n THEN e ELSE revs[i]
  BY <1>2, <1>3, <1>4, Placed DEF ChunkType
<1>6. new \in Memory /\ new.rev = n /\ new.loose = (revs[n].cand # "pending")
  BY <1>l DEF Memory
<1>7. /\ old \in Seq(Memory) /\ Len(old) = Len(memories) /\ DOMAIN old = DOMAIN memories
      /\ \A k \in DOMAIN memories :
           /\ old[k].rev = memories[k].rev /\ old[k].live = memories[k].live
           /\ ~old[k].loose => ~memories[k].loose /\ k # revs[n].promoted
  <2> DEFINE f(k) == IF k \in {revs[n].promoted} THEN [memories[k] EXCEPT !.loose = TRUE]
                     ELSE memories[k]
  <2>1. old = [k \in DOMAIN memories |-> f(k)]
    BY DEF Loosened
  <2>2. \A k \in DOMAIN memories :
          /\ f(k) \in Memory /\ f(k).rev = memories[k].rev /\ f(k).live = memories[k].live
          /\ ~f(k).loose => ~memories[k].loose /\ k # revs[n].promoted
    BY <1>l DEF Memory
  <2> HIDE DEF f, old
  <2>3. old \in [DOMAIN memories -> Memory]
    BY <2>1, <2>2
  <2>4. memories \in Seq(Memory)
    BY DEF ChunkType
  <2> QED
    BY <2>1, <2>2, <2>3, <2>4, Mapped
<1> HIDE DEF old, new
<1>8. /\ memories' \in Seq(Memory) /\ DOMAIN memories' = 1 .. last
      /\ \A k \in DOMAIN memories : memories'[k] = old[k]
      /\ memories'[last] = new
  BY <1>1, <1>6, <1>7, Extended
<1>9. ChunkType'
  <2>1. reviewer' \in [Reviewers -> 0 .. Len(revs')]
    BY <1>l, <1>1, <1>5 DEF ChunkType, Current
  <2> QED
    BY <1>1, <1>5, <1>8, <2>1 DEF ChunkType, Current
<1>10. EmptyInv' /\ ReaderInv'
  BY <1>l, <1>1, <1>3, <1>5 DEF ErasureInv, EmptyInv, ReaderInv
<1>11. MemoryInv'
  <2> SUFFICES ASSUME NEW k \in 1 .. last, memories'[k].live, ~memories'[k].loose
               PROVE  /\ memories'[k].rev \in DOMAIN revs' /\ memories'[k].rev > erased
                      /\ revs'[memories'[k].rev].promoted = k
    BY <1>1, <1>8 DEF MemoryInv
  <2>1. CASE k = last
    <3>1. revs[n].cand = "pending" /\ memories'[k].rev = n
      BY <1>6, <1>8, <2>1
    <3>2. n > erased
      BY <1>l, <1>2, <3>1 DEF ErasureInv, EmptyInv
    <3> QED
      BY <1>2, <1>3, <1>5, <2>1, <3>1, <3>2
  <2>2. CASE k # last
    <3>1. k \in DOMAIN memories
      BY <1>l, <2>2
    <3>2. /\ memories'[k].rev = memories[k].rev /\ memories[k].live /\ ~memories[k].loose
          /\ k # revs[n].promoted
      BY <1>7, <1>8, <3>1
    <3>3. /\ memories[k].rev \in DOMAIN revs /\ memories[k].rev > erased
          /\ revs[memories[k].rev].promoted = k
      BY <3>1, <3>2 DEF ErasureInv, MemoryInv
    <3> QED
      BY <1>5, <3>2, <3>3
  <2> QED
    BY <2>1, <2>2
<1> QED
  BY <1>9, <1>10, <1>11 DEF ErasureInv

LEMMA PeopleKeep ==
  ASSUME ChunkType, ErasureInv,
         \/ \E v \in Reviewers, n \in DOMAIN revs : ApproveRead(v, n)
         \/ \E n \in DOMAIN revs : RejectCandidate(n)
         \/ \E k \in DOMAIN memories : DeleteMemory(k)
  PROVE  ChunkType' /\ ErasureInv'
<1>l. /\ Len(revs) \in Nat /\ DOMAIN revs = 1 .. Len(revs)
      /\ vector \in 0 .. Len(revs) /\ erased \in 0 .. Len(revs)
  BY LenProperties DEF ChunkType, Current
<1>1. ASSUME NEW v \in Reviewers, NEW n \in DOMAIN revs, ApproveRead(v, n)
      PROVE  ChunkType' /\ ErasureInv'
  <2>1. reviewer' = [reviewer EXCEPT ![v] = n] /\ UNCHANGED <<chunkVars, extractor, erased>>
    BY <1>1 DEF ApproveRead
  <2>2. reviewer' \in [Reviewers -> 0 .. Len(revs')]
    BY <1>l, <2>1 DEF ChunkType, Current, chunkVars
  <2>3. \A c \in Consumers : Reads(c)
    BY <2>1 DEF Reads
  <2> QED
    BY <1>l, <2>1, <2>2, <2>3, SteadyRevs, SteadyMemories, ChunkGrows DEF ChunkType, chunkVars
<1>2. ASSUME NEW n \in DOMAIN revs, RejectCandidate(n)
      PROVE  ChunkType' /\ ErasureInv'
  <2> DEFINE e == [revs[n] EXCEPT !.cand = "rejected"]
  <2>1. /\ revs' = [revs EXCEPT ![n] = e] /\ memories' = Loosened({revs[n].promoted})
        /\ UNCHANGED <<chunk, vector, extractor, reviewer, erased>>
    BY <1>2 DEF RejectCandidate, workVars
  <2>2. revs[n] \in Revision /\ revs[n].cand # "none"
    BY <1>l, <1>2, ElementOfSeq DEF ChunkType, RejectCandidate
  <2>3. e \in Revision /\ Kept(revs[n], e)
    BY <2>2 DEF Revision, Kept
  <2> HIDE DEF e
  <2>4. RevsGrow /\ Len(revs') = Len(revs)
    BY <2>1, <2>3, OneGrows
  <2>5. MemoriesAge
    BY <2>1, LooseAge
  <2> QED
    BY <1>l, <2>1, <2>4, <2>5, WorkGrows DEF ChunkType
<1>3. ASSUME NEW k \in DOMAIN memories, DeleteMemory(k)
      PROVE  ChunkType' /\ ErasureInv'
  <2> DEFINE e == [memories[k] EXCEPT !.live = FALSE]
  <2>1. memories' = [memories EXCEPT ![k] = e]
        /\ UNCHANGED <<chunk, revs, vector, extractor, reviewer, erased>>
    BY <1>3 DEF DeleteMemory, workVars
  <2>2. memories[k] \in Memory
    BY ElementOfSeq, LenProperties DEF ChunkType
  <2>3. e \in Memory /\ e.rev = memories[k].rev /\ ~e.live /\ e.loose = memories[k].loose
    BY <2>2 DEF Memory
  <2> HIDE DEF e
  <2>4. MemoriesAge
    BY <2>1, <2>3, Placed DEF ChunkType, MemoriesAge
  <2> QED
    BY <1>l, <2>1, <2>4, SteadyRevs, WorkGrows DEF ChunkType
<1> QED
  BY <1>1, <1>2, <1>3

-----------------------------------------------------------------------------
(* The withdrawal: it empties every revision and kills every memory that a *)
(* candidate still leads to.                                               *)
LEMMA PropagateKeeps ==
  ASSUME SlackType, ChunkType, ErasureInv, NEW s \in Sources, PropagateTombstone(s)
  PROVE  ChunkType' /\ ErasureInv'
<1>l. /\ Len(revs) \in Nat /\ DOMAIN revs = 1 .. Len(revs)
      /\ \A i \in DOMAIN revs : revs[i] \in Revision
      /\ vector \in 0 .. Len(revs) /\ erased \in 0 .. Len(revs)
  BY LenProperties, ElementOfSeq DEF ChunkType, Current
<1>0. UNCHANGED <<extractor, reviewer>>
  BY DEF PropagateTombstone, workVars
<1>1. CASE ~Descends(s)
  <2>1. UNCHANGED <<chunkVars, erased>>
    BY <1>1 DEF PropagateTombstone
  <2> QED
    BY <1>0, <2>1, ChunkStays
<1>2. CASE Descends(s)
  <2> DEFINE rs == [i \in DOMAIN revs |-> Scrub(revs[i])]
             K == {k \in Promoted(DOMAIN revs) : memories[k].live}
  <2>1. /\ revs' = Bury(rs, {}) /\ KillMemories(K, TRUE) /\ vector' = 0
        /\ chunk' = [hidden |-> TRUE, text |-> {}] /\ erased' = Len(revs')
    BY <1>2 DEF PropagateTombstone
  <2>2. \A i \in DOMAIN revs : /\ rs[i] \in Revision /\ Kept(revs[i], rs[i])
                               /\ rs[i].content = {} /\ ~rs[i].filled
                               /\ rs[i].cand # "pending"
    BY <1>l, Scrubbed DEF ErasureInv, EmptyInv
  <2>3. /\ rs \in Seq(Revision) /\ Len(rs) = Len(revs) /\ DOMAIN rs = DOMAIN revs
        /\ rs # <<>>
    <3>1. rs \in [DOMAIN revs -> Revision]
      BY <2>2
    <3>2. rs \in Seq(Revision) /\ Len(rs) = Len(revs) /\ DOMAIN rs = DOMAIN revs
      BY <3>1, Mapped DEF ChunkType
    <3>3. DOMAIN revs # {}
      BY <1>2 DEF Descends
    <3> HIDE DEF rs
    <3> QED
      BY <1>l, <3>2, <3>3
  <2> HIDE DEF rs
  <2>4. /\ revs' \in Seq(Revision) /\ Len(revs') >= Len(rs) /\ Len(revs') # 0
        /\ DOMAIN revs' = 1 .. Len(revs') /\ DOMAIN rs \subseteq DOMAIN revs'
        /\ \A i \in DOMAIN rs : Kept(rs[i], revs'[i])
        /\ \A i \in DOMAIN revs' \ DOMAIN rs :
             revs'[i].content = {} /\ ~revs'[i].filled /\ revs'[i].cand = "none"
        /\ revs'[Len(revs')].tomb
    BY <2>1, <2>3, Buried
  <2>5. \A i \in DOMAIN revs' : revs'[i].content = {} /\ ~revs'[i].filled
                                /\ revs'[i].cand # "pending"
    <3>1. ASSUME NEW i \in DOMAIN rs
          PROVE  revs'[i].content = {} /\ ~revs'[i].filled /\ revs'[i].cand # "pending"
      BY <2>2, <2>3, <2>4 DEF Kept
    <3> QED
      BY <2>4, <3>1
  <2>6. Len(revs') \in Nat
    BY <2>4, LenProperties
  <2>7. EmptyInv'
    BY <2>1, <2>4, <2>5, <2>6 DEF EmptyInv
  <2>8. ReaderInv'
    BY <1>0, <2>2, <2>3, <2>4 DEF ErasureInv, ReaderInv, Kept
  <2>9. MemoriesAge /\ \A k \in DOMAIN memories : /\ memories'[k].loose = memories[k].loose
                                                  /\ k \in K => ~memories'[k].live
    BY <2>1, Killed
  <2>10. \A k \in DOMAIN memories : memories[k].live /\ ~memories[k].loose => k \in K
    <3> SUFFICES ASSUME NEW k \in DOMAIN memories, memories[k].live, ~memories[k].loose
                 PROVE  k \in K
      OBVIOUS
    <3>1. memories[k].rev \in DOMAIN revs /\ revs[memories[k].rev].promoted = k
      BY DEF ErasureInv, MemoryInv
    <3>2. k # 0
      BY LenProperties DEF ChunkType
    <3> QED
      BY <3>1, <3>2 DEF Promoted
  <2>11. MemoryInv'
    <3>1. \A k \in DOMAIN memories' : memories'[k].live => memories'[k].loose
      BY <2>9, <2>10 DEF MemoriesAge
    <3> QED
      BY <3>1 DEF MemoryInv
  <2>12. ChunkType'
    <3>1. reviewer' \in [Reviewers -> 0 .. Len(revs')]
      BY <1>l, <1>0, <2>3, <2>4, <2>6 DEF ChunkType, Current
    <3> QED
      BY <1>0, <2>1, <2>4, <2>6, <2>9, <3>1 DEF ChunkType, MemoriesAge, Current
  <2> QED
    BY <2>7, <2>8, <2>11, <2>12 DEF ErasureInv
<1> QED
  BY <1>1, <1>2

-----------------------------------------------------------------------------
LEMMA ChunkSteps ==
  ASSUME SlackType, WorkType, ChunkType, ErasureInv, [Next]_vars
  PROVE  ChunkType' /\ ErasureInv'
<1>1. ASSUME NEW c \in Consumers, Extracting(c) PROVE ChunkType' /\ ErasureInv'
  BY <1>1, ExtractReadKeeps, MemoryCommitKeeps, GraphCommitKeeps DEF Extracting
<1>2. CASE Api
  <2>1. CASE \/ \E m \in Messages, t \in Texts, e \in Stamps \ {0} : EditMessage(m, t, e)
             \/ \E m \in Messages : DeleteMessage(m)
             \/ \E s \in Sources : TombstoneSource(s)
    <3>1. UNCHANGED <<chunkVars, erased, extractor, reviewer>>
      BY <2>1, Zenon DEF EditMessage, DeleteMessage, TombstoneSource, workVars
    <3> QED
      BY <3>1, ChunkStays
  <2> QED
    BY <1>2, <2>1, PeopleKeep DEF Api
<1>3. CASE IndexFail \/ ImportCommit \/ \E b \in Bundles : ImportRead(b)
  <2>1. UNCHANGED <<chunkVars, erased, extractor, reviewer>>
    BY <1>3, Zenon DEF IndexFail, ImportCommit, ImportRead, workVars
  <2> QED
    BY <2>1, ChunkStays
<1>4. CASE UNCHANGED vars
  BY <1>4, ChunkStays DEF vars, chunkVars
<1> QED
  BY <1>1, <1>2, <1>3, <1>4, IndexingKeeps, PropagateKeeps, ExtractFailKeeps, ApproveKeeps
     DEF Next

LEMMA InitInv == Init => Inv
<1> SUFFICES ASSUME Init PROVE Inv
  OBVIOUS
<1>1. SlackType
  <2>1. NoMessage \in [state: {"absent", "live", "deleted"}, text: Texts \cup {Blank},
                       edited: Stamps, source: Sources \cup {Nothing}]
    BY KnowledgeAssumption DEF NoMessage, Stamps
  <2>2. NoMessage.state # "live"
    BY DEF NoMessage
  <2> QED
    BY <2>1, <2>2 DEF Init, SlackType, LiveInv
<1>2. WorkType
  BY KnowledgeAssumption, EmptySeq DEF Init, WorkType, WorkInv, IdleIndexer, Indexer
<1>3. Len(revs) = 0 /\ DOMAIN revs = {} /\ DOMAIN memories = {}
  BY DEF Init
<1>4. ChunkType
  BY <1>3, EmptySeq DEF Init, ChunkType, Current, IdleExtractor, Extractor
<1>5. ErasureInv
  BY <1>3 DEF Init, ErasureInv, EmptyInv, ReaderInv, MemoryInv, IdleExtractor
<1> QED
  BY <1>1, <1>2, <1>4, <1>5, InvParts

LEMMA NextInv == Inv /\ [Next]_vars => Inv'
<1> SUFFICES ASSUME SlackType, WorkType, ChunkType, ErasureInv, [Next]_vars
             PROVE  SlackType' /\ WorkType' /\ ChunkType' /\ ErasureInv'
  <2>1. Inv => SlackType /\ WorkType /\ ChunkType /\ ErasureInv
    BY InvParts
  <2>2. SlackType' /\ WorkType' /\ ChunkType' /\ ErasureInv' => Inv'
    BY DEF Inv, TypeOK, LiveInv, SlackType, WorkType, ChunkType, ErasureInv, Revision, Memory,
           Job, Indexer, Extractor
  <2> QED
    BY <2>1, <2>2
<1> QED
  BY SlackSteps, WorkSteps, ChunkSteps

(* Messages, jobs, revisions, memories and readers keep their types.       *)
THEOREM TypeCorrect == Spec => []TypeOK
<1>1. Inv => TypeOK
  BY DEF Inv
<1> QED
  BY <1>1, InitInv, NextInv, PTL DEF Spec

-----------------------------------------------------------------------------
(* What the index reads of a revision, and what announces it, apart from   *)
(* what extractors and people make of it.                                  *)
Aside(r, s) ==
  /\ s.content = r.content /\ s.tomb = r.tomb /\ s.jobs = r.jobs
  /\ s.embedded = r.embedded
  /\ \A c \in Consumers : s.ready[c] = "none" => r.ready[c] = "none"
  /\ r.tomb => s.mention = r.mention

LEMMA RejectedAside ==
  ASSUME NEW r \in Revision, NEW blank \in BOOLEAN
  PROVE  Aside(r, RejectRev(r, blank))
BY DEF RejectRev, Revision, Aside

LEMMA DerivedAside ==
  ASSUME NEW r \in Revision
  PROVE  Aside(r, Derive(r))
BY DEF Derive, Revision, Aside

LEMMA TouchedAside ==
  ASSUME NEW r \in Revision
  PROVE  /\ Aside(r, r)
         /\ \A m : ~r.tomb => Aside(r, [r EXCEPT !.mention = m])
         /\ \A c \in Consumers : Aside(r, [r EXCEPT !.ready[c] = "done"])
         /\ \A d : Aside(r, [r EXCEPT !.cand = d])
         /\ \A d, p : Aside(r, [r EXCEPT !.cand = d, !.promoted = p])
BY DEF Revision, Aside

LEMMA AsideChains ==
  ASSUME NEW r, NEW s, NEW t, Aside(r, s), Aside(s, t)
  PROVE  Aside(r, t)
BY DEF Aside

(* The step moves no message, job or chunk.                                *)
AsideStep ==
  \/ \E c \in Consumers : Extracting(c) \/ ExtractFail(c)
  \/ \E v \in Reviewers : ApproveCommit(v)
  \/ \E v \in Reviewers, n \in DOMAIN revs : ApproveRead(v, n)
  \/ \E n \in DOMAIN revs : RejectCandidate(n)
  \/ \E k \in DOMAIN memories : DeleteMemory(k)
  \/ \E s \in Sources : TombstoneSource(s)
  \/ \E b \in Bundles : ImportRead(b)
  \/ UNCHANGED vars

RevsAside ==
  /\ revs' \in Seq(Revision) /\ Len(revs') = Len(revs) /\ DOMAIN revs' = DOMAIN revs
  /\ \A i \in DOMAIN revs : Aside(revs[i], revs'[i])

LEMMA SameRevsAside == ASSUME ChunkType, UNCHANGED revs PROVE RevsAside
BY TouchedAside, ElementOfSeq, LenProperties DEF ChunkType, RevsAside

LEMMA OneRevAside ==
  ASSUME ChunkType, NEW i, NEW e \in Revision, revs' = [revs EXCEPT ![i] = e],
         i \in DOMAIN revs => Aside(revs[i], e)
  PROVE  RevsAside
<1>1. CASE i \in DOMAIN revs
  <2>1. /\ revs' \in Seq(Revision) /\ Len(revs') = Len(revs) /\ DOMAIN revs' = DOMAIN revs
        /\ \A j \in DOMAIN revs : revs'[j] = IF j = i THEN e ELSE revs[j]
    BY <1>1, Placed DEF ChunkType
  <2>2. \A j \in DOMAIN revs : Aside(revs[j], revs[j])
    BY TouchedAside, ElementOfSeq, LenProperties DEF ChunkType
  <2> QED
    BY <1>1, <2>1, <2>2 DEF RevsAside
<1>2. CASE i \notin DOMAIN revs
  <2>1. revs' = revs
    BY <1>2, LenProperties DEF ChunkType
  <2> QED
    BY <2>1, SameRevsAside
<1> QED
  BY <1>1, <1>2

LEMMA AllRevsAside ==
  ASSUME ChunkType, revs' \in [DOMAIN revs -> Revision],
         \A i \in DOMAIN revs : Aside(revs[i], revs'[i])
  PROVE  RevsAside
BY Mapped DEF ChunkType, RevsAside

LEMMA MemoryCommitAside ==
  ASSUME ChunkType, "memory" \in Consumers, MemoryCommit
  PROVE  RevsAside
<1> DEFINE x == extractor["memory"]
           stale == Stale(x.rev, x.erase)
           step(i) == IF i \in stale THEN RejectRev(revs[i], x.erase)
                      ELSE IF i = x.rev /\ x.live THEN Derive(revs[i]) ELSE revs[i]
           kept(i) == IF StillCurrent("memory") THEN step(i) ELSE revs[i]
           new(i) == IF i = x.rev THEN [kept(i) EXCEPT !.ready["memory"] = "done"]
                     ELSE kept(i)
<1>1. revs' = [i \in DOMAIN revs |-> new(i)]
  BY DEF MemoryCommit
<1>2. x.erase \in BOOLEAN /\ \A i \in DOMAIN revs : revs[i] \in Revision
  BY ElementOfSeq, LenProperties DEF ChunkType, Extractor
<1>3. ASSUME NEW i \in DOMAIN revs
      PROVE  kept(i) \in Revision /\ Aside(revs[i], kept(i))
  BY <1>2, Rejected, DerivedGrows, RejectedAside, DerivedAside, TouchedAside
<1> HIDE DEF kept
<1>4. ASSUME NEW i \in DOMAIN revs
      PROVE  new(i) \in Revision /\ Aside(revs[i], new(i))
  <2>1. CASE i = x.rev
    <3>1. new(i) = [kept(i) EXCEPT !.ready["memory"] = "done"]
      BY <2>1
    <3> HIDE DEF new
    <3>2. new(i) \in Revision /\ Aside(kept(i), new(i))
      BY <1>3, <3>1, Touched, TouchedAside
    <3> QED
      BY <1>3, <3>2, AsideChains
  <2>2. CASE i # x.rev
    BY <1>3, <2>2
  <2> QED
    BY <2>1, <2>2
<1> HIDE DEF new
<1> QED
  BY <1>1, <1>4, AllRevsAside

LEMMA GraphCommitAside ==
  ASSUME ChunkType, ErasureInv, "graph" \in Consumers, GraphCommit,
         \A i \in DOMAIN revs : revs[i].tomb => revs[i].mention = "none"
  PROVE  RevsAside
<1> DEFINE x == extractor["graph"]
           close(r) == IF r.mention = "open" THEN [r EXCEPT !.mention = "closed"] ELSE r
           open(r) == IF x.live /\ r.mention = "none" THEN [r EXCEPT !.mention = "open"] ELSE r
           step(i) == IF i # x.rev THEN close(revs[i])
                      ELSE open(IF chunk.hidden THEN close(revs[i]) ELSE revs[i])
           kept(i) == IF StillCurrent("graph") THEN step(i) ELSE revs[i]
           new(i) == IF i = x.rev THEN [kept(i) EXCEPT !.ready["graph"] = "done"]
                     ELSE kept(i)
<1>1. revs' = [i \in DOMAIN revs |-> new(i)] /\ x.pc = "read"
  BY DEF GraphCommit
<1>2. /\ \A i \in DOMAIN revs : revs[i] \in Revision
      /\ x.rev \in DOMAIN revs /\ (x.live => ~revs[x.rev].tomb)
  BY <1>1, ElementOfSeq, LenProperties DEF ChunkType, ErasureInv, ReaderInv
<1>3. \A r \in Revision : r.tomb /\ r.mention = "none" => close(r) = r
  OBVIOUS
<1>4. \A r \in Revision : (r.tomb => r.mention = "none") =>
        close(r) \in Revision /\ Aside(r, close(r))
  BY <1>3, Touched, TouchedAside
<1>5. \A r \in Revision : (x.live => ~r.tomb) => open(r) \in Revision /\ Aside(r, open(r))
  BY Touched, TouchedAside
<1> HIDE DEF close, open
<1>6. ASSUME NEW i \in DOMAIN revs
      PROVE  kept(i) \in Revision /\ Aside(revs[i], kept(i))
  <2>1. /\ revs[i] \in Revision /\ close(revs[i]) \in Revision
        /\ Aside(revs[i], close(revs[i])) /\ Aside(revs[i], revs[i])
    BY <1>2, <1>4, TouchedAside
  <2> DEFINE q == IF chunk.hidden THEN close(revs[i]) ELSE revs[i]
  <2>2. q \in Revision /\ Aside(revs[i], q)
    BY <2>1
  <2>3. q.tomb = revs[i].tomb
    BY <2>2 DEF Aside
  <2>4. step(i) = IF i # x.rev THEN close(revs[i]) ELSE open(q)
    OBVIOUS
  <2> HIDE DEF q, step
  <2>5. i = x.rev => open(q) \in Revision /\ Aside(revs[i], open(q))
    BY <1>2, <1>5, <2>2, <2>3, AsideChains
  <2>6. step(i) \in Revision /\ Aside(revs[i], step(i))
    BY <2>1, <2>4, <2>5
  <2> QED
    BY <2>1, <2>6
<1> HIDE DEF kept
<1>7. ASSUME NEW i \in DOMAIN revs
      PROVE  new(i) \in Revision /\ Aside(revs[i], new(i))
  <2>1. CASE i = x.rev
    <3>1. new(i) = [kept(i) EXCEPT !.ready["graph"] = "done"]
      BY <2>1
    <3> HIDE DEF new
    <3>2. new(i) \in Revision /\ Aside(kept(i), new(i))
      BY <1>6, <3>1, Touched, TouchedAside
    <3> QED
      BY <1>6, <3>2, AsideChains
  <2>2. CASE i # x.rev
    BY <1>6, <2>2
  <2> QED
    BY <2>1, <2>2
<1> HIDE DEF new
<1> QED
  BY <1>1, <1>7, AllRevsAside

LEMMA AsideSteps ==
  ASSUME ChunkType, ErasureInv, AsideStep,
         \A i \in DOMAIN revs : revs[i].tomb => revs[i].mention = "none"
  PROVE  /\ RevsAside
         /\ UNCHANGED <<message, imported, unheard, rag, indexer, chunk, vector>>
         /\ NothingWithdrawn' => NothingWithdrawn
<1>l. \A i \in DOMAIN revs : revs[i] \in Revision
  BY ElementOfSeq, LenProperties DEF ChunkType
<1>1. ASSUME NEW c \in Consumers, ExtractFail(c)
      PROVE  RevsAside /\ UNCHANGED <<message, imported, unheard, rag, indexer, chunk, vector, withdrawn>>
  BY <1>1, SameRevsAside DEF ExtractFail, slackVars, chunkVars
<1>2. ASSUME NEW c \in Consumers, NEW n \in DOMAIN revs, ExtractRead(c, n)
      PROVE  RevsAside /\ UNCHANGED <<message, imported, unheard, rag, indexer, chunk, vector, withdrawn>>
  <2>1. UNCHANGED <<message, imported, unheard, rag, indexer, chunk, vector, withdrawn>>
    BY <1>2 DEF ExtractRead, slackVars
  <2> DEFINE e == [revs[n] EXCEPT !.ready[c] = "done"]
  <2>2. UNCHANGED revs \/ revs' = [revs EXCEPT ![n] = e]
    BY <1>2 DEF ExtractRead
  <2>3. e \in Revision /\ Aside(revs[n], e)
    BY <1>l, Touched, TouchedAside
  <2> HIDE DEF e
  <2> QED
    BY <2>1, <2>2, <2>3, SameRevsAside, OneRevAside
<1>3. ASSUME NEW c \in Consumers, Extracting(c)
      PROVE  RevsAside /\ UNCHANGED <<message, imported, unheard, rag, indexer, chunk, vector, withdrawn>>
  <2>1. CASE c = "memory" /\ MemoryCommit
    BY <2>1, MemoryCommitAside DEF MemoryCommit, slackVars
  <2>2. CASE c = "graph" /\ GraphCommit
    BY <2>2, GraphCommitAside DEF GraphCommit, slackVars
  <2> QED
    BY <1>2, <1>3, <2>1, <2>2 DEF Extracting
<1>4. ASSUME NEW v \in Reviewers, ApproveCommit(v)
      PROVE  RevsAside /\ UNCHANGED <<message, imported, unheard, rag, indexer, chunk, vector, withdrawn>>
  <2> DEFINE n == reviewer[v]
             last == Len(memories) + 1
             e == [revs[n] EXCEPT !.cand = "approved", !.promoted = last]
  <2>1. /\ n # 0 /\ n \in 0 .. Len(revs) /\ last \in Nat
        /\ revs' = [revs EXCEPT ![n].cand = "approved", ![n].promoted = last]
        /\ UNCHANGED <<message, imported, unheard, rag, indexer, chunk, vector, withdrawn>>
    BY <1>4, LenProperties DEF ApproveCommit, ChunkType, Current, slackVars
  <2>2. n \in DOMAIN revs
    BY <2>1, LenProperties DEF ChunkType
  <2>3. revs' = [revs EXCEPT ![n] = e]
    BY <2>1, <2>2 DEF ChunkType
  <2> HIDE DEF last
  <2>q. revs[n] \in Revision /\ last \in Nat
    BY <1>l, <2>1, <2>2
  <2>4. e \in Revision
    BY <2>q DEF Revision
  <2>5. Aside(revs[n], e)
    BY <1>l, <2>2, TouchedAside
  <2> HIDE DEF e, n
  <2> QED
    BY <2>1, <2>3, <2>4, <2>5, OneRevAside
<1>5. ASSUME NEW n \in DOMAIN revs, RejectCandidate(n)
      PROVE  RevsAside /\ UNCHANGED <<message, imported, unheard, rag, indexer, chunk, vector, withdrawn>>
  <2> DEFINE e == [revs[n] EXCEPT !.cand = "rejected"]
  <2>1. /\ revs' = [revs EXCEPT ![n] = e]
        /\ UNCHANGED <<message, imported, unheard, rag, indexer, chunk, vector, withdrawn>>
    BY <1>5 DEF RejectCandidate, workVars, slackVars
  <2>q. revs[n] \in Revision
    BY <1>l
  <2>2. e \in Revision /\ Aside(revs[n], e)
    BY <2>q, TouchedAside DEF Revision
  <2> HIDE DEF e
  <2> QED
    BY <2>1, <2>2, OneRevAside
<1>6. ASSUME \/ \E v \in Reviewers, n \in DOMAIN revs : ApproveRead(v, n)
             \/ \E k \in DOMAIN memories : DeleteMemory(k)
             \/ \E b \in Bundles : ImportRead(b)
             \/ UNCHANGED vars
      PROVE  RevsAside /\ UNCHANGED <<message, imported, unheard, rag, indexer, chunk, vector, withdrawn>>
  <2>1. UNCHANGED <<message, imported, unheard, rag, indexer, chunk, vector, withdrawn, revs>>
    BY <1>6, Zenon DEF ApproveRead, DeleteMemory, ImportRead, vars, slackVars, chunkVars, workVars
  <2> QED
    BY <2>1, SameRevsAside
<1>7. ASSUME NEW s \in Sources, TombstoneSource(s)
      PROVE  /\ RevsAside /\ UNCHANGED <<message, imported, unheard, rag, indexer, chunk, vector>>
             /\ ~NothingWithdrawn' \/ NothingWithdrawn
  <2>1. /\ UNCHANGED <<message, imported, unheard, rag, indexer, chunk, vector, revs>>
        /\ withdrawn[s] = "no" /\ withdrawn' = [withdrawn EXCEPT ![s] = "requested"]
    BY <1>7 DEF TombstoneSource, slackVars, chunkVars, workVars
  <2>2. NothingWithdrawn' => NothingWithdrawn
    BY <2>1 DEF NothingWithdrawn
  <2> QED
    BY <2>1, <2>2, SameRevsAside
<1>8. UNCHANGED withdrawn => (NothingWithdrawn' => NothingWithdrawn)
  BY DEF NothingWithdrawn
<1> QED
  BY <1>1, <1>3, <1>4, <1>5, <1>6, <1>7, <1>8 DEF AsideStep

-----------------------------------------------------------------------------
(* Jobs and messages.                                                      *)

(* Jobs that are still to run, or have given up. *)
Pending == {j \in DOMAIN rag : rag[j].state \in {"waiting", "failed"}}
Erasures == {j \in Pending : rag[j].kind = "deleted"}
Deleted == {m \in Messages : message[m].state = "deleted"}
Holds(lines, dead) == \E l \in lines : l[1] \in dead

(* A line of a deleted message is in a revision, or in what the index has  *)
(* read, only while a job of a deletion is pending that will erase it, or  *)
(* when the event of its deletion was dropped.                             *)
ForgetInv ==
  /\ \A i \in DOMAIN revs :
       /\ revs[i].jobs \subseteq DOMAIN rag
       /\ Holds(revs[i].content, Deleted) /\ "deletion" \notin unheard =>
            \E j \in Erasures : j \notin revs[i].jobs
  /\ indexer.pc \in {"sources", "publish"} /\ Holds(indexer.read, Deleted)
       /\ "deletion" \notin unheard => Erasures # {}
  /\ ~imported => unheard = {} /\ \A m \in Messages : message[m].state = "absent"

-----------------------------------------------------------------------------
(* What each step does to the jobs. *)
KindsStay == \A j \in DOMAIN rag : rag'[j].kind = rag[j].kind

LEMMA Queued ==
  ASSUME WorkType, NEW kind \in Kinds, Queue(kind)
  PROVE  /\ DOMAIN rag \subseteq DOMAIN rag' /\ KindsStay
         /\ Len(rag) + 1 \notin DOMAIN rag
         /\ rag'[Len(rag) + 1].kind = kind
         /\ Pending' = Pending \cup {Len(rag) + 1}
         /\ DOMAIN rag' = DOMAIN rag \cup {Len(rag) + 1}
<1> DEFINE e == [kind |-> kind, state |-> "waiting", tries |-> 0]
<1>1. e \in Job /\ e.state = "waiting" /\ e.kind = kind /\ rag' = Append(rag, e)
  BY KnowledgeAssumption DEF Queue, Job
<1> HIDE DEF e
<1>2. /\ rag' \in Seq(Job) /\ DOMAIN rag' = 1 .. Len(rag) + 1
      /\ DOMAIN rag \subseteq DOMAIN rag' /\ rag'[Len(rag) + 1] = e
      /\ \A j \in DOMAIN rag : rag'[j] = rag[j]
      /\ Len(rag) + 1 \notin DOMAIN rag
  BY <1>1, Extended DEF WorkType
<1>3. DOMAIN rag = 1 .. Len(rag) /\ Len(rag) \in Nat
  BY LenProperties DEF WorkType
<1>4. DOMAIN rag' = DOMAIN rag \cup {Len(rag) + 1}
  BY <1>2, <1>3
<1> QED
  BY <1>1, <1>2, <1>4 DEF Pending, KindsStay

LEMMA JobSet ==
  ASSUME WorkType, NEW j \in DOMAIN rag, NEW row \in Job, rag' = [rag EXCEPT ![j] = row],
         row.kind = rag[j].kind
  PROVE  /\ DOMAIN rag' = DOMAIN rag /\ KindsStay
         /\ Pending' = (Pending \ {j}) \cup
                       IF row.state \in {"waiting", "failed"} THEN {j} ELSE {}
<1>1. /\ DOMAIN rag' = DOMAIN rag
      /\ \A i \in DOMAIN rag : rag'[i] = IF i = j THEN row ELSE rag[i]
  BY Placed DEF WorkType
<1> QED
  BY <1>1 DEF Pending, KindsStay

LEMMA Started ==
  ASSUME WorkType, NEW j \in DOMAIN rag, IndexStart(j)
  PROVE  /\ DOMAIN rag' = DOMAIN rag /\ KindsStay
         /\ Pending' = Pending \ {j} /\ j \in Pending
<1> DEFINE row == [rag[j] EXCEPT !.state = "running"]
<1>1. rag[j] \in Job /\ rag[j].state = "waiting"
  BY ElementOfSeq, LenProperties DEF WorkType, IndexStart
<1>2. row \in Job /\ row.state = "running" /\ row.kind = rag[j].kind
  BY <1>1 DEF Job
<1>3. rag' = [rag EXCEPT ![j] = row]
  BY DEF IndexStart
<1> HIDE DEF row
<1> QED
  BY <1>1, <1>2, <1>3, JobSet DEF Pending

LEMMA Ended ==
  ASSUME WorkType, indexer.pc # "idle", IndexEnd("done")
  PROVE  /\ DOMAIN rag' = DOMAIN rag /\ KindsStay /\ Pending' = Pending
         /\ indexer' = IdleIndexer
<1> DEFINE j == indexer.job
           row == [rag[j] EXCEPT !.state = "done"]
<1>1. j \in DOMAIN rag /\ rag[j] \in Job /\ rag[j].state = "running"
  BY ElementOfSeq, LenProperties DEF WorkType, WorkInv
<1>2. row \in Job /\ row.state = "done" /\ row.kind = rag[j].kind
  BY <1>1 DEF Job
<1>3. rag' = [rag EXCEPT ![j] = row] /\ indexer' = IdleIndexer
  BY DEF IndexEnd
<1> HIDE DEF row
<1> QED
  BY <1>1, <1>2, <1>3, JobSet DEF Pending

LEMMA Retried ==
  ASSUME WorkType, IndexFail
  PROVE  /\ DOMAIN rag' = DOMAIN rag /\ KindsStay
         /\ Pending' = Pending \cup {indexer.job} /\ indexer.job \in DOMAIN rag
         /\ indexer' = IdleIndexer
<1> DEFINE j == indexer.job
           t == rag[j].tries + 1
           st == IF rag[j].tries + 1 = MaxAttempts THEN "failed" ELSE "waiting"
           row == [rag[j] EXCEPT !.tries = t, !.state = st]
<1>1. j \in DOMAIN rag /\ rag[j] \in Job /\ rag[j].tries < MaxAttempts
  BY ElementOfSeq, LenProperties DEF WorkType, WorkInv, IndexFail
<1>2. t \in 0 .. MaxAttempts
  BY <1>1, KnowledgeAssumption DEF Job
<1>3. st \in {"waiting", "failed"}
  OBVIOUS
<1>4. rag' = [rag EXCEPT ![j] = row] /\ indexer' = IdleIndexer
  BY <1>1 DEF IndexFail, WorkType
<1> HIDE DEF t, st
<1>5. row \in Job /\ row.state = st /\ row.kind = rag[j].kind
  BY <1>1, <1>2, <1>3 DEF Job
<1> HIDE DEF row
<1> QED
  BY <1>1, <1>3, <1>4, <1>5, JobSet DEF Pending

(* Messages change together with a job, or the change is unheard; the first *)
(* import finds none.                                                      *)
MessageStep ==
  \/ \E m \in Messages, t \in Texts, e \in Stamps \ {0} : EditMessage(m, t, e)
  \/ \E m \in Messages : DeleteMessage(m)
  \/ ImportCommit

Fresh(kinds) == /\ Len(rag) + 1 \in Pending' /\ Len(rag) + 1 \notin DOMAIN rag
                /\ rag'[Len(rag) + 1].kind \in kinds

(* What went unheard stays so until a job is queued for it. *)
Recorded == /\ "change" \in unheard => "change" \in unheard' \/ Fresh(Kinds \ {"full"})
            /\ "deletion" \in unheard => "deletion" \in unheard' \/ Fresh({"deleted"})

LEMMA QueueRecords ==
  ASSUME WorkType, NEW kind \in Kinds, Queue(kind), kind = "full" => unheard = {}
  PROVE  /\ Fresh({kind}) /\ Recorded
         /\ DOMAIN rag \subseteq DOMAIN rag' /\ KindsStay /\ Pending \subseteq Pending'
<1>1. /\ DOMAIN rag \subseteq DOMAIN rag' /\ KindsStay /\ Pending \subseteq Pending'
      /\ Fresh({kind})
  BY Queued DEF Fresh
<1>2. unheard' = unheard \ IF kind = "deleted" THEN {"change", "deletion"} ELSE {"change"}
  BY DEF Queue, Heard
<1> QED
  BY <1>1, <1>2 DEF Recorded, Fresh

LEMMA MessageSteps ==
  ASSUME SlackType, WorkType, ForgetInv, MessageStep
  PROVE  /\ UNCHANGED <<chunkVars, indexer, withdrawn>>
         /\ DOMAIN rag \subseteq DOMAIN rag' /\ KindsStay /\ Pending \subseteq Pending'
         /\ imported' /\ Recorded
         /\ Deleted' \subseteq Deleted \/ Fresh({"deleted"}) \/ "deletion" \in unheard'
         /\ Content' = Content \/ Fresh(Kinds) \/ "change" \in unheard'
         /\ \/ Content' # {} \/ Content = {}
            \/ Fresh(Kinds \ {"full"}) \/ "change" \in unheard'
<1>1. ASSUME NEW m \in Messages, NEW t \in Texts, NEW e \in Stamps, EditMessage(m, t, e)
      PROVE  /\ UNCHANGED <<chunkVars, indexer, withdrawn>>
             /\ DOMAIN rag \subseteq DOMAIN rag' /\ KindsStay /\ Pending \subseteq Pending'
             /\ imported' /\ Recorded /\ Deleted' \subseteq Deleted /\ Fresh({"edited"})
  <2>1. /\ Queue("edited") /\ UNCHANGED <<chunkVars, indexer, withdrawn, imported>>
        /\ message[m].state = "live" /\ message' = [message EXCEPT ![m].text = t, ![m].edited = e]
    BY <1>1 DEF EditMessage, workVars
  <2>2. /\ Fresh({"edited"}) /\ Recorded
        /\ DOMAIN rag \subseteq DOMAIN rag' /\ KindsStay /\ Pending \subseteq Pending'
    BY <2>1, QueueRecords DEF Kinds
  <2>3. \A k \in Messages : message'[k].state = message[k].state
    BY <2>1 DEF SlackType
  <2>4. imported'
    BY <2>1 DEF ForgetInv, SlackType
  <2> QED
    BY <2>1, <2>2, <2>3, <2>4 DEF Deleted
<1>2. ASSUME NEW m \in Messages, DeleteMessage(m)
      PROVE  /\ UNCHANGED <<chunkVars, indexer, withdrawn>>
             /\ DOMAIN rag \subseteq DOMAIN rag' /\ KindsStay /\ Pending \subseteq Pending'
             /\ imported' /\ Recorded /\ Fresh({"deleted"})
  <2>1. /\ Queue("deleted") /\ UNCHANGED <<chunkVars, indexer, withdrawn, imported>>
        /\ message[m].state = "live"
    BY <1>2 DEF DeleteMessage, workVars
  <2>2. /\ Fresh({"deleted"}) /\ Recorded
        /\ DOMAIN rag \subseteq DOMAIN rag' /\ KindsStay /\ Pending \subseteq Pending'
    BY <2>1, QueueRecords DEF Kinds
  <2>4. imported'
    BY <2>1 DEF ForgetInv, SlackType
  <2> QED
    BY <2>1, <2>2, <2>4
<1>3. ASSUME ImportCommit
      PROVE  /\ UNCHANGED <<chunkVars, indexer, withdrawn>>
             /\ DOMAIN rag \subseteq DOMAIN rag' /\ KindsStay /\ Pending \subseteq Pending'
             /\ imported' /\ Recorded
             /\ Deleted' \subseteq Deleted \/ Fresh({"deleted"}) \/ "deletion" \in unheard'
             /\ Content' = Content \/ Fresh(Kinds) \/ "change" \in unheard'
             /\ \/ Content' # {} \/ Content = {}
                \/ Fresh(Kinds \ {"full"}) \/ "change" \in unheard'
  <2> DEFINE b == importing
             Row(m) == IF m \in Created(b) \cup Updated(b)
                       THEN [state |-> "live", text |-> b.rows[m].text,
                             edited |-> b.rows[m].edited, source |-> b.source]
                       ELSE IF m \in Omitted(b)
                       THEN [message[m] EXCEPT !.state = "deleted", !.text = Blank]
                       ELSE message[m]
  <2>1. /\ message' = [m \in Messages |-> Row(m)] /\ imported' = TRUE
        /\ UNCHANGED <<chunkVars, indexer, withdrawn>>
        /\ ~imported => Queue("full")
        /\ imported => IF Created(b) \cup Updated(b) \cup Omitted(b) = {}
                       THEN UNCHANGED <<rag, unheard>> ELSE QueueOnce(b)
    BY <1>3 DEF ImportCommit, workVars
  <2>2. \A m \in Messages : m \notin Created(b) \cup Updated(b) /\ m \notin Omitted(b)
                               => Row(m) = message[m]
    OBVIOUS
  <2>3. \A m \in Messages : m \in Created(b) \cup Updated(b) => Row(m).state = "live"
    OBVIOUS
  <2> HIDE DEF Row
  <2>4. Omitted(b) = {} => Deleted' \subseteq Deleted
    BY <2>1, <2>2, <2>3 DEF Deleted
  <2>5. CASE imported /\ Created(b) \cup Updated(b) \cup Omitted(b) = {}
    <3>1. message' = message
      BY <2>1, <2>2, <2>5 DEF SlackType
    <3>2. Content' = Content /\ Deleted' = Deleted
      BY <3>1 DEF Content, Live, Deleted
    <3> QED
      BY <2>1, <2>5, <3>2 DEF KindsStay, Pending, Recorded
  <2>6. CASE imported /\ Created(b) \cup Updated(b) \cup Omitted(b) # {}
    <3>1. QueueOnce(b)
      BY <2>1, <2>6
    <3>2. TargetKind(b) \in Kinds \ {"full"} /\ (Omitted(b) # {} => TargetKind(b) = "deleted")
      BY DEF TargetKind, Kinds
    <3>3. CASE Queue(TargetKind(b))
      <4>1. /\ Fresh({TargetKind(b)}) /\ Recorded /\ DOMAIN rag \subseteq DOMAIN rag'
            /\ KindsStay /\ Pending \subseteq Pending'
        BY <3>2, <3>3, QueueRecords
      <4> QED
        BY <2>1, <2>4, <3>2, <4>1 DEF Fresh
    <3>4. CASE Drop(TargetKind(b))
      <4>1. /\ rag' = rag /\ unheard \subseteq unheard' /\ "change" \in unheard'
            /\ TargetKind(b) = "deleted" => "deletion" \in unheard'
        BY <3>4 DEF Drop, Heard
      <4> QED
        BY <2>1, <2>4, <3>2, <4>1 DEF KindsStay, Pending, Recorded
    <3> QED
      BY <3>1, <3>3, <3>4 DEF QueueOnce
  <2>7. CASE ~imported
    <3>1. Queue("full") /\ "full" \in Kinds /\ unheard = {}
      BY <2>1, <2>7 DEF Kinds, ForgetInv
    <3>2. /\ Fresh({"full"}) /\ Recorded /\ DOMAIN rag \subseteq DOMAIN rag'
          /\ KindsStay /\ Pending \subseteq Pending'
      BY <3>1, QueueRecords
    <3>3. Live = {}
      BY <2>7 DEF Live, ForgetInv
    <3>4. Content = {} /\ Omitted(b) = {}
      BY <3>3 DEF Content, Omitted
    <3> QED
      BY <2>1, <2>4, <3>1, <3>2, <3>4 DEF Fresh
  <2> QED
    BY <2>5, <2>6, <2>7
<1> QED
  BY <1>1, <1>2, <1>3 DEF MessageStep, Fresh, Kinds

-----------------------------------------------------------------------------
(* What an invalidation, an announcement and a tombstone leave as it was.  *)
Spared(r, s) ==
  /\ s.tomb = r.tomb /\ s.jobs = r.jobs /\ s.mention = r.mention /\ s.ready = r.ready
  /\ s.promoted = r.promoted

LEMMA RejectedSpares ==
  ASSUME NEW r \in Revision, NEW blank \in BOOLEAN
  PROVE  LET s == RejectRev(r, blank) IN
         /\ Spared(r, s) /\ s.content = r.content /\ s.embedded = r.embedded
         /\ s.cand \in {"none", "rejected"}
BY DEF RejectRev, Revision, Spared

LEMMA InvalidatedSpares ==
  ASSUME NEW r \in Revision, NEW kind
  PROVE  LET s == Invalidate(r, kind) IN
         /\ s \in Revision /\ Spared(r, s) /\ s.cand \in {"none", "rejected"}
         /\ s.content = IF kind = "deleted" THEN {} ELSE r.content
<1> DEFINE s == RejectRev(r, kind = "deleted")
<1>1. /\ s \in Revision /\ Spared(r, s) /\ s.content = r.content
      /\ s.cand \in {"none", "rejected"}
  BY Rejected, RejectedSpares
<1>2. Invalidate(r, kind) = IF kind = "deleted"
        THEN [s EXCEPT !.content = {}, !.gone = TRUE, !.embedded = FALSE] ELSE s
  BY DEF Invalidate
<1> HIDE DEF s
<1>3. LET t == [s EXCEPT !.content = {}, !.gone = TRUE, !.embedded = FALSE] IN
      t \in Revision /\ Spared(s, t) /\ t.content = {} /\ t.cand = s.cand
  BY <1>1 DEF Revision, Spared
<1> QED
  BY <1>1, <1>2, <1>3 DEF Spared

LEMMA ScrubbedSpares ==
  ASSUME NEW r \in Revision
  PROVE  LET s == Scrub(r) IN
         /\ s \in Revision /\ Spared(r, s) /\ s.content = {} /\ s.cand \in {"none", "rejected"}
<1> DEFINE q == RejectRev(r, TRUE)
<1>1. q \in Revision /\ Spared(r, q) /\ q.cand \in {"none", "rejected"}
  BY Rejected, RejectedSpares
<1>2. Scrub(r) = [q EXCEPT !.content = {}, !.gone = TRUE, !.embedded = FALSE]
  BY DEF Scrub
<1> HIDE DEF q
<1> QED
  BY <1>1, <1>2 DEF Revision, Spared

(* An announcement reaches who was told nothing. *)
Told(r, s) ==
  /\ s.tomb = r.tomb /\ s.mention = r.mention /\ s.content = r.content /\ s.cand = r.cand
  /\ s.embedded = r.embedded /\ s.promoted = r.promoted
  /\ \A c \in Consumers : s.ready[c] = IF r.ready[c] = "none" THEN "waiting" ELSE r.ready[c]

LEMMA AnnouncedTells ==
  ASSUME NEW r \in Revision
  PROVE  Announce(r) \in Revision /\ Told(r, Announce(r)) /\ Announce(r).jobs = r.jobs
<1> DEFINE f == [c \in Consumers |-> IF r.ready[c] = "none" THEN "waiting" ELSE r.ready[c]]
<1>1. f \in [Consumers -> {"none", "waiting", "done"}]
  BY DEF Revision
<1>2. Announce(r) = [r EXCEPT !.ready = f]
  BY DEF Announce
<1>3. \A c \in Consumers : f[c] = IF r.ready[c] = "none" THEN "waiting" ELSE r.ready[c]
  OBVIOUS
<1> HIDE DEF f
<1> QED
  BY <1>1, <1>2, <1>3 DEF Revision, Told

(* The older revisions stay as they are, the last is an announced tombstone. *)
LEMMA BuriedTells ==
  ASSUME NEW rs \in Seq(Revision), rs # <<>>, NEW jobs \in SUBSET Nat
  PROVE  LET t == Bury(rs, jobs)
             n == Len(rs) IN
         /\ n \in DOMAIN rs
         /\ rs[n].tomb =>
              /\ DOMAIN t = DOMAIN rs /\ Len(t) = n
              /\ \A i \in DOMAIN rs \ {n} : t[i] = rs[i]
              /\ Told(rs[n], t[n]) /\ t[n].jobs = rs[n].jobs \cup jobs
         /\ ~rs[n].tomb =>
              /\ DOMAIN t = DOMAIN rs \cup {n + 1} /\ Len(t) = n + 1 /\ n + 1 \notin DOMAIN rs
              /\ \A i \in DOMAIN rs : /\ Spared(rs[i], t[i]) /\ t[i].content = rs[i].content
                                      /\ t[i].cand = rs[i].cand
              /\ t[n + 1].tomb /\ t[n + 1].content = {} /\ t[n + 1].mention = "none"
              /\ t[n + 1].cand = "none" /\ t[n + 1].jobs = jobs /\ t[n + 1].promoted = 0
              /\ \A c \in Consumers : t[n + 1].ready[c] = "waiting"
<1> DEFINE n == Len(rs)
<1>1. n \in Nat \ {0} /\ DOMAIN rs = 1 .. n /\ n \in DOMAIN rs
  BY EmptySeq, LenProperties
<1>2. rs[n] \in Revision /\ \A i \in DOMAIN rs : rs[i] \in Revision
  BY <1>1, ElementOfSeq
<1>4. CASE rs[n].tomb
  <2> DEFINE q == [rs[n] EXCEPT !.jobs = rs[n].jobs \cup jobs]
             e == Announce(q)
  <2>1. q \in Revision /\ q.jobs = rs[n].jobs \cup jobs /\ Told(rs[n], Announce(q))
        /\ e \in Revision /\ e.jobs = q.jobs
    <3>1. rs[n].jobs \cup jobs \in SUBSET Nat
      BY <1>2 DEF Revision
    <3>2. q \in Revision /\ q.jobs = rs[n].jobs \cup jobs
      BY <1>2, <3>1 DEF Revision
    <3>3. /\ q.tomb = rs[n].tomb /\ q.mention = rs[n].mention /\ q.content = rs[n].content
          /\ q.cand = rs[n].cand /\ q.embedded = rs[n].embedded
          /\ q.promoted = rs[n].promoted /\ q.ready = rs[n].ready
      BY <1>2, <3>1 DEF Revision
    <3> HIDE DEF q
    <3> QED
      BY <3>2, <3>3, AnnouncedTells DEF Told
  <2>2. Bury(rs, jobs) = [rs EXCEPT ![n] = e]
    <3>1. Bury(rs, jobs) = [rs EXCEPT ![n] = Announce([rs[n] EXCEPT !.jobs = rs[n].jobs \cup jobs])]
      BY <1>4, Zenon DEF Bury
    <3> QED
      BY <3>1, Zenon
  <2> HIDE DEF q
  <2>4. Told(rs[n], e) /\ e \in Revision /\ e.jobs = rs[n].jobs \cup jobs
    BY <2>1
  <2> HIDE DEF e
  <2>5. LET t == [rs EXCEPT ![n] = e] IN
        /\ t \in Seq(Revision) /\ Len(t) = Len(rs) /\ DOMAIN t = DOMAIN rs
        /\ \A j \in DOMAIN rs : t[j] = IF j = n THEN e ELSE rs[j]
    BY <1>1, <2>4, Placed
  <2> QED
    BY <1>1, <1>4, <2>2, <2>4, <2>5
<1>5. CASE ~rs[n].tomb
  <2> DEFINE g == [rs[n] EXCEPT !.gone = TRUE]
             rs1 == [rs EXCEPT ![n] = g]
             new == NewRev({}, {}, TRUE, jobs)
             e == Announce(new)
  <2>1. g \in Revision /\ Spared(rs[n], g) /\ g.content = rs[n].content /\ g.cand = rs[n].cand
    BY <1>2 DEF Revision, Spared
  <2>2. /\ new \in Revision /\ new.cand = "none" /\ new.tomb /\ new.content = {}
        /\ new.jobs = jobs /\ new.mention = "none" /\ new.promoted = 0
        /\ \A c \in Consumers : new.ready[c] = "none"
    BY DEF NewRev, Revision
  <2>3. Bury(rs, jobs) = Append(rs1, e)
    BY <1>5 DEF Bury
  <2> HIDE DEF g, new
  <2>6. /\ e \in Revision /\ e.cand = "none" /\ e.tomb /\ e.content = {}
        /\ e.jobs = jobs /\ e.mention = "none" /\ e.promoted = 0
        /\ \A c \in Consumers : e.ready[c] = "waiting"
    BY <2>2, AnnouncedTells DEF Told
  <2> HIDE DEF e
  <2>4. /\ rs1 \in Seq(Revision) /\ Len(rs1) = Len(rs) /\ DOMAIN rs1 = DOMAIN rs
        /\ \A j \in DOMAIN rs : rs1[j] = IF j = n THEN g ELSE rs[j]
    BY <1>1, <2>1, Placed
  <2> HIDE DEF rs1
  <2>5. LET t == Append(rs1, e) IN
        /\ t \in Seq(Revision) /\ Len(t) = Len(rs1) + 1 /\ DOMAIN t = 1 .. Len(rs1) + 1
        /\ DOMAIN rs1 \subseteq DOMAIN t /\ Len(rs1) + 1 \notin DOMAIN rs1
        /\ \A j \in DOMAIN rs1 : t[j] = rs1[j]
        /\ t[Len(rs1) + 1] = e
    BY <2>4, <2>6, Extended
  <2>7. 1 .. n + 1 = (1 .. n) \cup {n + 1}
    BY <1>1
  <2> DEFINE t == Append(rs1, e)
  <2>8. /\ DOMAIN t = DOMAIN rs \cup {n + 1} /\ Len(t) = n + 1 /\ n + 1 \notin DOMAIN rs
        /\ t[n + 1] = e
    BY <1>1, <2>4, <2>5, <2>7
  <2>9. ASSUME NEW i \in DOMAIN rs
        PROVE  /\ Spared(rs[i], t[i]) /\ t[i].content = rs[i].content
               /\ t[i].cand = rs[i].cand
    <3>1. t[i] = IF i = n THEN g ELSE rs[i]
      BY <2>4, <2>5
    <3> HIDE DEF t
    <3> QED
      BY <2>1, <3>1 DEF Spared
  <2>10. Bury(rs, jobs) = t
    BY <2>3
  <2> HIDE DEF t
  <2> QED
    BY <1>1, <1>5, <2>6, <2>8, <2>9, <2>10
<1> QED
  BY <1>4, <1>5

LEMMA PublishedRevs ==
  ASSUME WorkType, ChunkType, IndexPublish
  PROVE  LET by == IF Targeted(indexer.job) THEN {indexer.job} ELSE {}
             same == Unchanged(indexer.read, indexer.from) IN
         /\ by \in SUBSET Nat
         /\ same =>
              /\ Current \in DOMAIN revs /\ DOMAIN revs' = DOMAIN revs /\ Len(revs') = Len(revs)
              /\ \A i \in DOMAIN revs \ {Current} : revs'[i] = revs[i]
              /\ revs'[Current] = [revs[Current] EXCEPT !.jobs = revs[Current].jobs \cup by]
              /\ revs[Current] \in Revision /\ revs[Current].content = indexer.read
         /\ ~same =>
              /\ DOMAIN revs' = DOMAIN revs \cup {Current + 1} /\ Len(revs') = Current + 1
              /\ Current + 1 \notin DOMAIN revs
              /\ \A i \in DOMAIN revs : revs'[i] = revs[i]
              /\ revs'[Current + 1] = NewRev(indexer.read, indexer.from, FALSE, by)
         /\ Len(revs') \in DOMAIN revs'
<1> DEFINE by == IF Targeted(indexer.job) THEN {indexer.job} ELSE {}
           same == Unchanged(indexer.read, indexer.from)
<1>1. /\ indexer.job \in Nat /\ indexer.read \subseteq Line
      /\ indexer.from \subseteq Sources \cup {Nothing}
  BY DEF WorkType, Indexer
<1>2. by \in SUBSET Nat
  BY <1>1
<1>3. /\ revs' = IF same THEN [revs EXCEPT ![Current].jobs = @ \cup by]
                 ELSE Append(revs, NewRev(indexer.read, indexer.from, FALSE, by))
  BY DEF IndexPublish
<1>4. /\ revs \in Seq(Revision) /\ Len(revs) \in Nat /\ DOMAIN revs = 1 .. Len(revs)
      /\ Current = Len(revs) /\ \A i \in DOMAIN revs : revs[i] \in Revision
  BY ElementOfSeq, LenProperties DEF ChunkType, Current
<1>5. CASE same
  <2>1. Current \in DOMAIN revs /\ revs[Current].content = indexer.read
    BY <1>4, <1>5, EmptySeq DEF Unchanged
  <2> DEFINE e == [revs[Current] EXCEPT !.jobs = revs[Current].jobs \cup by]
  <2>2. revs' = [revs EXCEPT ![Current] = e]
    BY <1>3, <1>5
  <2>3. revs[Current].jobs \cup by \in SUBSET Nat
    BY <1>2, <1>4, <2>1 DEF Revision
  <2> HIDE DEF by
  <2>4. e \in Revision
    BY <1>4, <2>1, <2>3, Touched
  <2>5. e = [revs[Current] EXCEPT !.jobs = revs[Current].jobs \cup by]
    OBVIOUS
  <2> HIDE DEF e
  <2>6. /\ Len(revs') = Len(revs) /\ DOMAIN revs' = DOMAIN revs
        /\ \A j \in DOMAIN revs : revs'[j] = IF j = Current THEN e ELSE revs[j]
    BY <1>4, <2>1, <2>2, <2>4, Placed
  <2> QED
    BY <1>2, <1>4, <1>5, <2>1, <2>5, <2>6 DEF by
<1>6. CASE ~same
  <2> DEFINE e == NewRev(indexer.read, indexer.from, FALSE, by)
  <2>1. e \in Revision
    BY <1>1, <1>2, NewRevType
  <2>2. revs' = Append(revs, e)
    BY <1>3, <1>6
  <2>3. e = NewRev(indexer.read, indexer.from, FALSE, by)
    OBVIOUS
  <2> HIDE DEF e
  <2>4. /\ Len(revs') = Len(revs) + 1 /\ DOMAIN revs' = 1 .. Len(revs) + 1
        /\ Len(revs) + 1 \notin DOMAIN revs
        /\ \A j \in DOMAIN revs : revs'[j] = revs[j]
        /\ revs'[Len(revs) + 1] = e
    BY <1>4, <2>1, <2>2, Extended
  <2>5. 1 .. Len(revs) + 1 = (1 .. Len(revs)) \cup {Len(revs) + 1}
    BY <1>4
  <2>6. Len(revs) + 1 \in 1 .. Len(revs) + 1
    BY <1>4
  <2> HIDE DEF by, same
  <2> QED
    BY <1>2, <1>4, <1>6, <2>3, <2>4, <2>5, <2>6 DEF by, same
<1> QED
  BY <1>5, <1>6

-----------------------------------------------------------------------------
(* A tombstone has no text and no mention, its extractors were told, and   *)
(* its chunk is hidden; the index publishes nothing without text.          *)
TombRev(r) ==
  r.tomb => /\ r.content = {} /\ r.mention = "none"
            /\ \A c \in Consumers : r.ready[c] # "none"
TombInv ==
  /\ \A i \in DOMAIN revs : TombRev(revs[i])
  /\ Current \in DOMAIN revs /\ revs[Current].tomb => chunk.hidden
  /\ indexer.pc \in {"sources", "publish"} => indexer.read # {}

LEMMA TombKept ==
  ASSUME NEW r, NEW s, TombRev(r)
  PROVE  /\ Aside(r, s) => TombRev(s)
         /\ Spared(r, s) /\ s.content \in {r.content, {}} => TombRev(s)
         /\ Told(r, s) => TombRev(s)
BY DEF TombRev, Aside, Spared, Told

(* What the steps of the index and the withdrawal do to the revisions. *)
LEMMA PreparedRevs ==
  ASSUME ChunkType, NEW j \in DOMAIN rag, IndexStart(j)
  PROVE  \/ UNCHANGED chunkVars /\ (~Targeted(j) \/ revs = <<>>)
         \/ /\ Targeted(j) /\ Len(revs') = Len(revs) /\ DOMAIN revs' = DOMAIN revs
            /\ \A i \in DOMAIN revs :
                 \/ j \in revs[i].jobs /\ revs'[i] = revs[i]
                 \/ /\ j \notin revs[i].jobs /\ Spared(revs[i], revs'[i])
                    /\ revs'[i].cand \in {"none", "rejected"}
                    /\ revs'[i].content = IF rag[j].kind = "deleted" THEN {} ELSE revs[i].content
            /\ KillMemories(Promoted(Affected(j)), rag[j].kind = "deleted")
            /\ vector' = 0 /\ chunk' = [chunk EXCEPT !.hidden = TRUE]
<1>1. CASE ~Targeted(j) \/ revs = <<>>
  BY <1>1 DEF IndexStart, Prepare
<1>2. CASE Targeted(j) /\ revs # <<>>
  <2> DEFINE f(i) == IF i \in Affected(j) THEN Invalidate(revs[i], rag[j].kind) ELSE revs[i]
  <2>1. /\ revs' = [i \in DOMAIN revs |-> f(i)]
        /\ KillMemories(Promoted(Affected(j)), rag[j].kind = "deleted")
        /\ vector' = 0 /\ chunk' = [chunk EXCEPT !.hidden = TRUE]
    BY <1>2 DEF IndexStart, Prepare
  <2>2. ASSUME NEW i \in DOMAIN revs
        PROVE  /\ f(i) \in Revision
               /\ \/ j \in revs[i].jobs /\ f(i) = revs[i]
                  \/ /\ j \notin revs[i].jobs /\ Spared(revs[i], f(i))
                     /\ f(i).cand \in {"none", "rejected"}
                     /\ f(i).content = IF rag[j].kind = "deleted" THEN {} ELSE revs[i].content
    <3>1. revs[i] \in Revision
      BY ElementOfSeq, LenProperties DEF ChunkType
    <3>2. i \in Affected(j) <=> j \notin revs[i].jobs
      BY DEF Affected
    <3> QED
      BY <3>1, <3>2, InvalidatedSpares
  <2> HIDE DEF f
  <2>3. revs' \in [DOMAIN revs -> Revision]
    BY <2>1, <2>2
  <2>4. Len(revs') = Len(revs) /\ DOMAIN revs' = DOMAIN revs
    BY <2>3, Mapped DEF ChunkType
  <2> QED
    BY <1>2, <2>1, <2>2, <2>4
<1> QED
  BY <1>1, <1>2

LEMMA EmbeddedRevs ==
  ASSUME ChunkType, IndexEmbed
  PROVE  /\ Len(revs') = Len(revs) /\ DOMAIN revs' = DOMAIN revs
         /\ \A i \in DOMAIN revs : /\ Spared(revs[i], revs'[i]) /\ revs'[i].cand = revs[i].cand
                                   /\ revs'[i].content = revs[i].content
                                   /\ revs'[i].embedded = (revs[i].embedded \/ i = indexer.rev)
<1> DEFINE n == indexer.rev
           e == [revs[n] EXCEPT !.embedded = TRUE]
<1>1. revs' = [revs EXCEPT ![n] = e] /\ \A i \in DOMAIN revs : revs[i] \in Revision
  BY ElementOfSeq, LenProperties DEF IndexEmbed, ChunkType
<1>2. \A i \in DOMAIN revs : Spared(revs[i], revs[i]) /\ revs[i].embedded \in BOOLEAN
  BY <1>1 DEF Spared, Revision
<1>3. CASE n \in DOMAIN revs
  <2>1. /\ e \in Revision /\ Spared(revs[n], e) /\ e.cand = revs[n].cand
        /\ e.content = revs[n].content /\ e.embedded = TRUE
    BY <1>1, <1>3 DEF Spared, Revision
  <2> HIDE DEF e
  <2>2. /\ Len(revs') = Len(revs) /\ DOMAIN revs' = DOMAIN revs
        /\ \A j \in DOMAIN revs : revs'[j] = IF j = n THEN e ELSE revs[j]
    BY <1>1, <1>3, <2>1, Placed DEF ChunkType
  <2> QED
    BY <1>2, <2>1, <2>2
<1>4. CASE n \notin DOMAIN revs
  <2>1. revs' = revs
    BY <1>1, <1>4, LenProperties DEF ChunkType
  <2> QED
    BY <1>2, <1>4, <2>1
<1> QED
  BY <1>3, <1>4

LEMMA ProjectedRevs ==
  ASSUME ChunkType, IndexProject
  PROVE  /\ Len(revs') = Len(revs) /\ DOMAIN revs' = DOMAIN revs
         /\ \A i \in DOMAIN revs \ {Current} : revs'[i] = revs[i]
         /\ Current \in DOMAIN revs =>
              IF IsPublishable THEN /\ Told(revs[Current], revs'[Current])
                                    /\ revs'[Current].jobs = revs[Current].jobs
                                    /\ vector' = Current
              ELSE revs'[Current] = revs[Current] /\ vector' = vector
<1> DEFINE n == indexer.rev
           e == Announce(revs[n])
<1>1. IF IsPublishable THEN n = Current /\ vector' = n /\ revs' = [revs EXCEPT ![n] = e]
      ELSE UNCHANGED <<vector, revs>>
  BY DEF IndexProject, IsPublishable
<1>2. CASE ~IsPublishable
  BY <1>1, <1>2
<1>3. CASE IsPublishable /\ n \in DOMAIN revs
  <2>1. revs[n] \in Revision
    BY <1>3, ElementOfSeq, LenProperties DEF ChunkType
  <2>2. e \in Revision /\ Told(revs[n], e) /\ e.jobs = revs[n].jobs
    BY <2>1, AnnouncedTells
  <2> HIDE DEF e
  <2>3. /\ Len(revs') = Len(revs) /\ DOMAIN revs' = DOMAIN revs
        /\ \A j \in DOMAIN revs : revs'[j] = IF j = n THEN e ELSE revs[j]
    BY <1>1, <1>3, <2>2, Placed DEF ChunkType
  <2> QED
    BY <1>1, <1>3, <2>2, <2>3
<1>4. CASE IsPublishable /\ n \notin DOMAIN revs
  <2>1. revs' = revs
    BY <1>1, <1>4, LenProperties DEF ChunkType
  <2> QED
    BY <1>1, <1>4, <2>1
<1> QED
  BY <1>2, <1>3, <1>4

(* A tombstone at the end, new or there already. *)
Buries(rs, jobs) ==
  LET n == Len(rs) IN
  /\ n \in DOMAIN rs
  /\ \/ /\ rs[n].tomb
        /\ DOMAIN revs' = DOMAIN rs /\ Len(revs') = n
        /\ \A i \in DOMAIN rs \ {n} : revs'[i] = rs[i]
        /\ Told(rs[n], revs'[n]) /\ revs'[n].jobs = rs[n].jobs \cup jobs
     \/ /\ ~rs[n].tomb
        /\ DOMAIN revs' = DOMAIN rs \cup {n + 1} /\ Len(revs') = n + 1 /\ n + 1 \notin DOMAIN rs
        /\ \A i \in DOMAIN rs : /\ Spared(rs[i], revs'[i]) /\ revs'[i].content = rs[i].content
                                /\ revs'[i].cand = rs[i].cand
        /\ revs'[n + 1].tomb /\ revs'[n + 1].content = {} /\ revs'[n + 1].mention = "none"
        /\ revs'[n + 1].cand = "none" /\ revs'[n + 1].jobs = jobs /\ revs'[n + 1].promoted = 0
        /\ \A c \in Consumers : revs'[n + 1].ready[c] = "waiting"

LEMMA BuryBuries ==
  ASSUME NEW rs \in Seq(Revision), rs # <<>>, NEW jobs \in SUBSET Nat, revs' = Bury(rs, jobs)
  PROVE  Buries(rs, jobs)
<1> DEFINE n == Len(rs)
<1> DEFINE t == Bury(rs, jobs)
<1>1. /\ n \in DOMAIN rs
      /\ rs[n].tomb =>
           /\ DOMAIN t = DOMAIN rs /\ Len(t) = n
           /\ \A i \in DOMAIN rs \ {n} : t[i] = rs[i]
           /\ Told(rs[n], t[n]) /\ t[n].jobs = rs[n].jobs \cup jobs
      /\ ~rs[n].tomb =>
           /\ DOMAIN t = DOMAIN rs \cup {n + 1} /\ Len(t) = n + 1 /\ n + 1 \notin DOMAIN rs
           /\ \A i \in DOMAIN rs : /\ Spared(rs[i], t[i]) /\ t[i].content = rs[i].content
                                   /\ t[i].cand = rs[i].cand
           /\ t[n + 1].tomb /\ t[n + 1].content = {} /\ t[n + 1].mention = "none"
           /\ t[n + 1].cand = "none" /\ t[n + 1].jobs = jobs /\ t[n + 1].promoted = 0
           /\ \A c \in Consumers : t[n + 1].ready[c] = "waiting"
  BY BuriedTells
<1>2. revs' = t
  OBVIOUS
<1> HIDE DEF t
<1> QED
  BY <1>1, <1>2 DEF Buries

LEMMA MissingRevs ==
  ASSUME WorkType, ChunkType, TombstoneMissing, revs # <<>>
  PROVE  Buries(revs, {indexer.job})
         /\ chunk' = IF revs[Current].tomb THEN chunk ELSE [hidden |-> TRUE, text |-> {}]
<1>1. /\ revs' = Bury(revs, {indexer.job}) /\ {indexer.job} \in SUBSET Nat
      /\ revs \in Seq(Revision)
      /\ chunk' = IF revs[Current].tomb THEN chunk ELSE [hidden |-> TRUE, text |-> {}]
  BY DEF TombstoneMissing, WorkType, Indexer, ChunkType
<1> QED
  BY <1>1, BuryBuries

LEMMA PropagatedRevs ==
  ASSUME ChunkType, NEW s \in Sources, PropagateTombstone(s)
  PROVE  \/ UNCHANGED chunkVars
         \/ \E rs \in Seq(Revision) :
              /\ DOMAIN rs = DOMAIN revs /\ Len(rs) = Len(revs)
              /\ \A i \in DOMAIN revs : /\ Spared(revs[i], rs[i]) /\ rs[i].content = {}
                                        /\ rs[i].cand \in {"none", "rejected"}
              /\ Buries(rs, {})
              /\ KillMemories({k \in Promoted(DOMAIN revs) : memories[k].live}, TRUE)
              /\ chunk' = [hidden |-> TRUE, text |-> {}]
<1>1. CASE ~Descends(s)
  BY <1>1 DEF PropagateTombstone
<1>2. CASE Descends(s)
  <2> DEFINE rs == [i \in DOMAIN revs |-> Scrub(revs[i])]
  <2>1. /\ revs' = Bury(rs, {}) /\ chunk' = [hidden |-> TRUE, text |-> {}]
        /\ KillMemories({k \in Promoted(DOMAIN revs) : memories[k].live}, TRUE)
    BY <1>2 DEF PropagateTombstone
  <2>2. \A i \in DOMAIN revs : /\ rs[i] \in Revision /\ Spared(revs[i], rs[i])
                               /\ rs[i].content = {} /\ rs[i].cand \in {"none", "rejected"}
    <3>1. \A i \in DOMAIN revs : revs[i] \in Revision
      BY ElementOfSeq, LenProperties DEF ChunkType
    <3> QED
      BY <3>1, ScrubbedSpares
  <2>3. rs \in [DOMAIN revs -> Revision]
    BY <2>2
  <2> HIDE DEF rs
  <2>4. rs \in Seq(Revision) /\ Len(rs) = Len(revs) /\ DOMAIN rs = DOMAIN revs
    BY <2>3, Mapped DEF ChunkType
  <2>5. rs # <<>>
    <3>1. DOMAIN revs # {}
      BY <1>2 DEF Descends
    <3>2. DOMAIN << >> = {}
      BY EmptySeq
    <3> QED
      BY <2>4, <3>1, <3>2
  <2>6. Buries(rs, {})
    <3>1. {} \in SUBSET Nat
      OBVIOUS
    <3> QED
      BY <2>1, <2>4, <2>5, <3>1, BuryBuries
  <2> QED
    BY <2>1, <2>2, <2>4, <2>6
<1> QED
  BY <1>1, <1>2

-----------------------------------------------------------------------------
(* The index has hidden the chunk of the event it runs, and what it has    *)
(* published is current and served unless a withdrawal buried it.          *)
PhaseInv ==
  /\ indexer.pc = "missing" => Targeted(indexer.job)
  /\ indexer.pc \in {"load", "sources", "publish", "missing"}
       /\ Targeted(indexer.job) /\ Current \in DOMAIN revs => chunk.hidden
  /\ indexer.pc \in {"embed", "project"} =>
       /\ Current \in DOMAIN revs
       /\ revs[Current].tomb \/ (indexer.rev = Current /\ ~chunk.hidden)

(* Once no event is unread, and none was dropped, what the index has read  *)
(* or published is what the messages say.                                  *)
Shows == /\ Current \in DOMAIN revs /\ ~chunk.hidden
         /\ chunk.text = Content /\ revs[Current].content = Content
SearchInv ==
  NothingWithdrawn /\ "change" \notin unheard /\ Pending = {} /\ indexer.pc # "load" =>
    /\ indexer.pc \in {"sources", "publish"} => indexer.read = Content
    /\ indexer.pc = "missing" => Content = {}
    /\ indexer.pc \in {"embed", "project"} => Content # {} /\ Shows /\ indexer.rev = Current
    /\ indexer.pc = "project" => revs[Current].embedded
    /\ indexer.pc = "idle" /\ Content # {} =>
         Shows /\ vector = Current /\ revs[Current].embedded

(* Once no event of a change is unread, a chunk without messages is buried; *)
(* the first import's event may come back and find nothing to do.          *)
GoneInv ==
  NothingWithdrawn /\ "change" \notin unheard /\ Content = {}
    /\ (\A j \in Pending : ~Targeted(j)) /\ ~(indexer.pc = "load" /\ Targeted(indexer.job)) =>
    /\ indexer.pc \notin {"sources", "publish", "embed", "project"}
    /\ Current \in DOMAIN revs => indexer.pc = "missing" \/ revs[Current].tomb

(* A current revision that was not announced will be, or its messages went *)
(* with a withdrawal or without an event.                                  *)
AnnounceInv ==
  "change" \notin unheard /\ Current \in DOMAIN revs => \A c \in Consumers : revs[Current].ready[c] = "none" =>
    Content = {} \/ indexer.pc # "idle" \/ Pending # {}

IndexInv == ForgetInv /\ TombInv /\ PhaseInv /\ SearchInv /\ GoneInv /\ AnnounceInv

LEMMA Lengths ==
  ASSUME ChunkType
  PROVE  /\ Len(revs) \in Nat /\ DOMAIN revs = 1 .. Len(revs) /\ Current = Len(revs)
         /\ \A i \in DOMAIN revs : revs[i] \in Revision
         /\ revs # <<>> <=> Current \in DOMAIN revs
BY EmptySeq, LenProperties, ElementOfSeq DEF ChunkType, Current

LEMMA AsideKeeps ==
  ASSUME ChunkType, ErasureInv, IndexInv, AsideStep
  PROVE  IndexInv'
<1>1. /\ RevsAside /\ UNCHANGED <<message, imported, unheard, rag, indexer, chunk, vector>>
      /\ NothingWithdrawn' => NothingWithdrawn
  BY AsideSteps DEF IndexInv, TombInv, TombRev
<1>2. /\ Current' = Current /\ DOMAIN revs' = DOMAIN revs
      /\ \A i \in DOMAIN revs : Aside(revs[i], revs'[i])
  BY <1>1 DEF RevsAside, Current
<1>3. /\ Content' = Content /\ Deleted' = Deleted /\ Pending' = Pending /\ Erasures' = Erasures
      /\ \A j : Targeted(j)' = Targeted(j)
  BY <1>1 DEF Content, Live, Deleted, Pending, Erasures, Targeted
<1>4. TombInv'
  BY <1>1, <1>2, TombKept DEF IndexInv, TombInv, Aside
<1>5. ForgetInv'
  BY <1>1, <1>2, <1>3 DEF IndexInv, ForgetInv, Aside
<1>6. PhaseInv'
  BY <1>1, <1>2, <1>3 DEF IndexInv, PhaseInv, Aside
<1>7. SearchInv'
  <2>1. Shows => Shows'
    BY <1>1, <1>2, <1>3 DEF Shows, Aside
  <2>2. Shows => (revs[Current].embedded => revs'[Current].embedded)
    BY <1>1, <1>2, <1>3 DEF Shows, Aside
  <2>3. SearchInv
    BY DEF IndexInv
  <2> QED
    BY <1>1, <1>2, <1>3, <2>1, <2>2, <2>3 DEF SearchInv
<1>8. GoneInv'
  BY <1>1, <1>2, <1>3 DEF IndexInv, GoneInv, Aside
<1>9. AnnounceInv'
  BY <1>1, <1>2, <1>3 DEF IndexInv, AnnounceInv, Aside
<1> QED
  BY <1>4, <1>5, <1>6, <1>7, <1>8, <1>9 DEF IndexInv

LEMMA MessagesKeep ==
  ASSUME SlackType, WorkType, ChunkType, IndexInv, MessageStep
  PROVE  IndexInv'
<1>1. /\ UNCHANGED <<chunkVars, indexer, withdrawn>>
      /\ DOMAIN rag \subseteq DOMAIN rag' /\ KindsStay /\ Pending \subseteq Pending'
      /\ imported' /\ Recorded
      /\ Deleted' \subseteq Deleted \/ Fresh({"deleted"}) \/ "deletion" \in unheard'
      /\ Content' = Content \/ Fresh(Kinds) \/ "change" \in unheard'
      /\ \/ Content' # {} \/ Content = {}
         \/ Fresh(Kinds \ {"full"}) \/ "change" \in unheard'
  BY MessageSteps DEF IndexInv
<1>2. /\ UNCHANGED <<chunk, revs, vector, indexer>> /\ Current' = Current
      /\ NothingWithdrawn' = NothingWithdrawn
  BY <1>1 DEF chunkVars, Current, NothingWithdrawn
<1>3. /\ \A j \in Pending : Targeted(j)' = Targeted(j)
      /\ indexer.pc # "idle" => Targeted(indexer.job)' = Targeted(indexer.job)
  BY <1>1, <1>2 DEF Pending, KindsStay, Targeted, WorkType, WorkInv
<1>4. TombInv'
  BY <1>2 DEF IndexInv, TombInv
<1>5. ForgetInv'
  <2>1. Erasures \subseteq Erasures'
    BY <1>1 DEF Erasures, KindsStay, Pending
  <2>2. Fresh({"deleted"}) => Len(rag) + 1 \in Erasures' /\ Len(rag) + 1 \notin DOMAIN rag
    BY DEF Fresh, Erasures
  <2> QED
    BY <1>1, <1>2, <2>1, <2>2 DEF IndexInv, ForgetInv, Holds, Recorded
<1>6. PhaseInv'
  BY <1>2, <1>3 DEF IndexInv, PhaseInv
<1>7. SearchInv'
  <2>1. CASE Content' = Content /\ "change" \notin unheard
    BY <1>1, <1>2, <2>1 DEF IndexInv, SearchInv, Shows
  <2>2. CASE Fresh(Kinds) \/ "change" \in unheard'
    BY <2>2 DEF Fresh, SearchInv
  <2> QED
    BY <1>1, <2>1, <2>2 DEF Recorded, Fresh
<1>8. GoneInv'
  <2>1. CASE Fresh(Kinds \ {"full"}) \/ "change" \in unheard'
    BY <2>1 DEF Fresh, GoneInv, Targeted
  <2>2. CASE Content' = {} /\ Content = {} /\ "change" \notin unheard
    BY <1>1, <1>2, <1>3, <2>2 DEF IndexInv, GoneInv
  <2>3. CASE Content' # {}
    BY <2>3 DEF GoneInv
  <2> QED
    BY <1>1, <2>1, <2>2, <2>3 DEF Recorded
<1>9. AnnounceInv'
  <2>1. \/ Pending' # {} \/ "change" \in unheard'
        \/ Pending = {} /\ Content' = Content /\ "change" \notin unheard
    BY <1>1 DEF Fresh, Recorded
  <2> QED
    BY <1>2, <2>1 DEF IndexInv, AnnounceInv
<1> QED
  BY <1>4, <1>5, <1>6, <1>7, <1>8, <1>9 DEF IndexInv

LEMMA StartKeeps ==
  ASSUME WorkType, ChunkType, IndexInv, NEW j \in DOMAIN rag, IndexStart(j)
  PROVE  IndexInv'
<1>1. /\ DOMAIN rag' = DOMAIN rag /\ KindsStay /\ Pending' = Pending \ {j} /\ j \in Pending
  BY Started
<1>2. /\ indexer'.pc = "load" /\ indexer'.job = j /\ UNCHANGED <<slackVars, withdrawn>>
  BY DEF IndexStart, IdleIndexer
<1>3. /\ Content' = Content /\ Deleted' = Deleted
      /\ \A k \in DOMAIN rag : Targeted(k)' = Targeted(k)
  BY <1>1, <1>2 DEF Content, Live, Deleted, KindsStay, Targeted, slackVars
<1>e. Erasures' = Erasures \ {j}
  BY <1>1 DEF Erasures, KindsStay, Pending
<1>l. Len(revs) \in Nat /\ Current = Len(revs) /\ (revs # <<>> <=> Current \in DOMAIN revs)
  BY Lengths
<1>4. \/ UNCHANGED chunkVars /\ (~Targeted(j) \/ revs = <<>>)
      \/ /\ Targeted(j) /\ Len(revs') = Len(revs) /\ DOMAIN revs' = DOMAIN revs
         /\ \A i \in DOMAIN revs :
              \/ j \in revs[i].jobs /\ revs'[i] = revs[i]
              \/ /\ j \notin revs[i].jobs /\ Spared(revs[i], revs'[i])
                 /\ revs'[i].content = IF rag[j].kind = "deleted" THEN {} ELSE revs[i].content
         /\ chunk' = [chunk EXCEPT !.hidden = TRUE]
  BY PreparedRevs
<1>5. /\ DOMAIN revs' = DOMAIN revs /\ Current' = Current
      /\ \A i \in DOMAIN revs :
           \/ revs'[i] = revs[i]
           \/ Spared(revs[i], revs'[i]) /\ revs'[i].content \in {revs[i].content, {}}
      /\ chunk.hidden => chunk'.hidden
      /\ Targeted(j) => (Current \in DOMAIN revs => chunk'.hidden)
  BY <1>l, <1>4 DEF chunkVars, Current, ChunkType
<1>6. TombInv'
  <2>1. \A i \in DOMAIN revs : TombRev(revs'[i])
    BY <1>5, TombKept DEF IndexInv, TombInv
  <2>2. Current \in DOMAIN revs => (revs'[Current].tomb => revs[Current].tomb)
    BY <1>5 DEF Spared
  <2> QED
    BY <1>2, <1>5, <2>1, <2>2 DEF IndexInv, TombInv
<1>7. ForgetInv'
  <2>1. ASSUME NEW i \in DOMAIN revs
        PROVE  /\ revs'[i].jobs = revs[i].jobs
               /\ Holds(revs'[i].content, Deleted) /\ "deletion" \notin unheard =>
                    \E k \in Erasures' : k \notin revs[i].jobs
    <3>1. /\ revs'[i].jobs = revs[i].jobs /\ revs'[i].content \in {revs[i].content, {}}
          /\ j \notin revs[i].jobs /\ rag[j].kind = "deleted" => revs'[i].content = {}
      BY <1>4 DEF Spared, chunkVars, Targeted
    <3>2. Holds(revs'[i].content, Deleted) =>
            /\ Holds(revs[i].content, Deleted)
            /\ ~(j \notin revs[i].jobs /\ rag[j].kind = "deleted")
      BY <3>1 DEF Holds
    <3>3. Holds(revs[i].content, Deleted) /\ "deletion" \notin unheard =>
            \E k \in Erasures : k \notin revs[i].jobs
      BY DEF IndexInv, ForgetInv
    <3>4. j \in Erasures => rag[j].kind = "deleted"
      BY DEF Erasures
    <3> QED
      BY <1>e, <3>1, <3>2, <3>3, <3>4
  <2> QED
    BY <1>1, <1>2, <1>3, <1>5, <2>1 DEF IndexInv, ForgetInv, slackVars
<1>8. PhaseInv'
  BY <1>2, <1>3, <1>5 DEF PhaseInv
<1>9. SearchInv'
  BY <1>2 DEF SearchInv
<1>10. GoneInv'
  <2>1. SUFFICES ASSUME NothingWithdrawn, "change" \notin unheard, Content = {},
                        \A k \in Pending' : ~Targeted(k), ~Targeted(j)
                 PROVE  Current \in DOMAIN revs => revs'[Current].tomb
    <3>1. NothingWithdrawn' = NothingWithdrawn /\ unheard' = unheard
      BY <1>2 DEF NothingWithdrawn, slackVars
    <3>2. \A k \in Pending' : k \in DOMAIN rag
      BY <1>1 DEF Pending
    <3> QED
      BY <1>2, <1>3, <1>5, <3>1, <3>2 DEF GoneInv
  <2>2. indexer.pc = "idle" /\ \A k \in Pending : ~Targeted(k)
    BY <1>1, <2>1 DEF IndexStart
  <2>3. Current \in DOMAIN revs => revs[Current].tomb
    BY <2>1, <2>2 DEF IndexInv, GoneInv
  <2> QED
    BY <1>5, <2>3 DEF Spared
<1>11. AnnounceInv'
  BY <1>2 DEF AnnounceInv
<1> QED
  BY <1>6, <1>7, <1>8, <1>9, <1>10, <1>11 DEF IndexInv

-----------------------------------------------------------------------------
(* A step of the index keeps the kinds of the jobs and loses none.         *)
Covers == KindsStay /\ DOMAIN rag' = DOMAIN rag /\ Pending \subseteq Pending'

(* Steps of the index that write to no message: what they leave of text was *)
(* there, in a revision of the same events.                                *)
LEMMA ForgetKept ==
  ASSUME ForgetInv, Covers, UNCHANGED <<imported, unheard>>,
         Deleted' \subseteq Deleted,
         ~imported => \A m \in Messages : message'[m].state = "absent",
         \A i \in DOMAIN revs' :
           \/ revs'[i].content = {} /\ revs'[i].jobs \subseteq DOMAIN rag
           \/ /\ i \in DOMAIN revs /\ revs'[i].content = revs[i].content
              /\ revs'[i].jobs = revs[i].jobs,
         indexer'.pc \in {"sources", "publish"} =>
           indexer.pc \in {"sources", "publish"} /\ indexer'.read = indexer.read
  PROVE  ForgetInv'
<1>1. Erasures \subseteq Erasures'
  BY DEF Covers, KindsStay, Erasures, Pending
<1>2. DOMAIN rag' = DOMAIN rag
  BY DEF Covers
<1>3. ASSUME NEW i \in DOMAIN revs'
      PROVE  /\ revs'[i].jobs \subseteq DOMAIN rag
             /\ Holds(revs'[i].content, Deleted') /\ "deletion" \notin unheard =>
                  \E j \in Erasures' : j \notin revs'[i].jobs
  BY <1>1 DEF ForgetInv, Holds
<1>4. indexer'.pc \in {"sources", "publish"} /\ Holds(indexer'.read, Deleted')
        /\ "deletion" \notin unheard => Erasures' # {}
  BY <1>1 DEF ForgetInv, Holds
<1> QED
  BY <1>2, <1>3, <1>4 DEF ForgetInv

LEMMA Unmoved ==
  ASSUME UNCHANGED <<slackVars, withdrawn>>
  PROVE  /\ Content' = Content /\ Deleted' = Deleted /\ NothingWithdrawn' = NothingWithdrawn
         /\ UNCHANGED <<message, imported, unheard>>
BY DEF slackVars, Content, Live, Deleted, NothingWithdrawn

LEMMA NoLoss ==
  ASSUME ForgetInv
  PROVE  /\ ~imported => \A m \in Messages : message[m].state = "absent"
         /\ \A i \in DOMAIN revs : revs[i].jobs \subseteq DOMAIN rag
BY DEF ForgetInv

LEMMA LoadKeeps ==
  ASSUME WorkType, ChunkType, IndexInv, IndexLoad
  PROVE  IndexInv'
<1>1. /\ indexer.pc = "load" /\ UNCHANGED <<slackVars, withdrawn, chunkVars>>
      /\ indexer.job \in DOMAIN rag
  BY DEF IndexLoad, WorkType, WorkInv
<1>2. /\ Content' = Content /\ Deleted' = Deleted /\ NothingWithdrawn' = NothingWithdrawn
      /\ UNCHANGED <<message, imported, unheard>>
  BY <1>1, Unmoved
<1>3. UNCHANGED <<chunk, revs, vector>> /\ Current' = Current
  BY <1>1 DEF chunkVars, Current
<1>4. CASE Content = {} /\ ~Targeted(indexer.job)
  <2>1. IndexEnd("done")
    BY <1>4 DEF IndexLoad
  <2>2. DOMAIN rag' = DOMAIN rag /\ KindsStay /\ Pending' = Pending /\ indexer'.pc = "idle"
    BY <1>1, <2>1, Ended DEF IdleIndexer
  <2>3. \A j \in DOMAIN rag : Targeted(j)' = Targeted(j)
    BY <2>2 DEF KindsStay, Targeted
  <2>4. TombInv'
    BY <1>3, <2>2 DEF IndexInv, TombInv
  <2>5. ForgetInv'
    BY <1>2, <1>3, <2>2, ForgetKept, NoLoss DEF IndexInv, Covers
  <2>6. PhaseInv'
    BY <2>2 DEF PhaseInv
  <2>7. SearchInv'
    BY <1>2, <1>4, <2>2 DEF SearchInv
  <2>8. GoneInv'
    <3>1. \A j \in Pending : Targeted(j)' = Targeted(j)
      BY <2>3 DEF Pending
    <3> QED
      BY <1>1, <1>2, <1>3, <1>4, <2>2, <3>1 DEF IndexInv, GoneInv
  <2>9. AnnounceInv'
    BY <1>2, <1>4 DEF AnnounceInv
  <2> QED
    BY <2>4, <2>5, <2>6, <2>7, <2>8, <2>9 DEF IndexInv
<1>5. CASE ~(Content = {} /\ ~Targeted(indexer.job))
  <2>1. /\ indexer'.pc = IF Content = {} THEN "missing" ELSE "sources"
        /\ indexer'.read = Content /\ indexer'.job = indexer.job /\ UNCHANGED rag
    BY <1>5 DEF IndexLoad, WorkType, Indexer
  <2>2. /\ DOMAIN rag' = DOMAIN rag /\ KindsStay /\ Pending' = Pending /\ Erasures' = Erasures
        /\ \A j : Targeted(j)' = Targeted(j)
    BY <2>1 DEF KindsStay, Pending, Targeted, Erasures
  <2>4. TombInv'
    BY <1>3, <2>1 DEF IndexInv, TombInv
  <2>5. ForgetInv'
    <3>1. ~Holds(Content, Deleted)
      BY DEF Holds, Content, Live, Deleted
    <3> QED
      BY <1>2, <1>3, <2>1, <2>2, <3>1 DEF IndexInv, ForgetInv
  <2>6. PhaseInv'
    BY <1>1, <1>3, <1>5, <2>1, <2>2 DEF IndexInv, PhaseInv
  <2>7. SearchInv'
    BY <1>2, <2>1 DEF SearchInv
  <2>8. GoneInv'
    BY <1>2, <2>1 DEF GoneInv
  <2>9. AnnounceInv'
    BY <2>1 DEF AnnounceInv
  <2> QED
    BY <2>4, <2>5, <2>6, <2>7, <2>8, <2>9 DEF IndexInv
<1> QED
  BY <1>4, <1>5

LEMMA SourcesKeep ==
  ASSUME WorkType, ChunkType, IndexInv, IndexSources
  PROVE  IndexInv'
<1>1. /\ indexer.pc = "sources" /\ UNCHANGED <<slackVars, withdrawn, rag, chunkVars>>
      /\ indexer'.pc = "publish" /\ indexer'.read = indexer.read /\ indexer'.job = indexer.job
  BY DEF IndexSources, WorkType, Indexer
<1>2. /\ Content' = Content /\ Deleted' = Deleted /\ NothingWithdrawn' = NothingWithdrawn
      /\ UNCHANGED <<message, imported, unheard>>
  BY <1>1, Unmoved
<1>3. UNCHANGED <<chunk, revs, vector>> /\ Current' = Current
  BY <1>1 DEF chunkVars, Current
<1>4. /\ DOMAIN rag' = DOMAIN rag /\ KindsStay /\ Pending' = Pending
      /\ \A j : Targeted(j)' = Targeted(j)
  BY <1>1 DEF KindsStay, Pending, Targeted
<1>5. TombInv'
  BY <1>1, <1>3 DEF IndexInv, TombInv
<1>6. ForgetInv'
  BY <1>1, <1>2, <1>3, <1>4, ForgetKept, NoLoss DEF IndexInv, Covers
<1>7. PhaseInv'
  BY <1>1, <1>3, <1>4 DEF IndexInv, PhaseInv
<1>8. SearchInv'
  BY <1>1, <1>2, <1>4 DEF IndexInv, SearchInv
<1>9. GoneInv'
  BY <1>1, <1>2, <1>3, <1>4 DEF IndexInv, GoneInv
<1>10. AnnounceInv'
  BY <1>1 DEF AnnounceInv
<1> QED
  BY <1>5, <1>6, <1>7, <1>8, <1>9, <1>10 DEF IndexInv

LEMMA PublishKeeps ==
  ASSUME WorkType, ChunkType, IndexInv, IndexPublish
  PROVE  IndexInv'
<1> DEFINE by == IF Targeted(indexer.job) THEN {indexer.job} ELSE {}
           same == Unchanged(indexer.read, indexer.from)
           read == indexer.read
<1>1. /\ indexer.pc = "publish" /\ UNCHANGED <<slackVars, withdrawn, rag, vector>>
      /\ indexer'.pc = "embed" /\ indexer'.rev = IF same THEN Current ELSE Current + 1
      /\ chunk'.hidden = FALSE /\ chunk'.text = read
      /\ indexer.job \in DOMAIN rag /\ indexer.job \notin Pending
  BY DEF IndexPublish, WorkType, Indexer, WorkInv, Pending
<1>2. /\ Content' = Content /\ Deleted' = Deleted /\ NothingWithdrawn' = NothingWithdrawn
      /\ UNCHANGED <<message, imported, unheard>>
  BY <1>1, Unmoved
<1>3. /\ Pending' = Pending /\ Erasures' = Erasures /\ \A j : Targeted(j)' = Targeted(j)
  BY <1>1 DEF Pending, Targeted, Erasures
<1>4. /\ same =>
           /\ Current \in DOMAIN revs /\ DOMAIN revs' = DOMAIN revs /\ Len(revs') = Len(revs)
           /\ \A i \in DOMAIN revs \ {Current} : revs'[i] = revs[i]
           /\ revs'[Current] = [revs[Current] EXCEPT !.jobs = revs[Current].jobs \cup by]
           /\ revs[Current] \in Revision /\ revs[Current].content = read
      /\ ~same =>
           /\ DOMAIN revs' = DOMAIN revs \cup {Current + 1} /\ Len(revs') = Current + 1
           /\ Current + 1 \notin DOMAIN revs
           /\ \A i \in DOMAIN revs : revs'[i] = revs[i]
           /\ revs'[Current + 1] = NewRev(read, indexer.from, FALSE, by)
      /\ Len(revs') \in DOMAIN revs'
  BY PublishedRevs
<1>5. by \subseteq {indexer.job}
  OBVIOUS
<1>6. Current = Len(revs) /\ Current' = Len(revs')
  BY DEF Current
<1>7. read # {}
  BY <1>1 DEF IndexInv, TombInv
<1>8. \A i \in DOMAIN revs' :
        \/ i \in DOMAIN revs /\ revs'[i] = revs[i] /\ i # Current'
        \/ /\ i = Current' /\ revs'[i].content = read /\ ~revs'[i].tomb
           /\ \/ revs'[i].jobs = by
              \/ /\ i \in DOMAIN revs /\ revs'[i].jobs = revs[i].jobs \cup by
                 /\ revs[i].content = read
  <2>1. CASE same
    <3>1. ~revs[Current].tomb
      BY <1>4, <1>7, <2>1 DEF IndexInv, TombInv, TombRev
    <3>2. /\ revs'[Current].content = read /\ revs'[Current].tomb = revs[Current].tomb
          /\ revs'[Current].jobs = revs[Current].jobs \cup by
      BY <1>4, <2>1 DEF Revision
    <3> QED
      BY <1>4, <1>6, <2>1, <3>1, <3>2
  <2>2. CASE ~same
    <3>1. /\ revs'[Current + 1].content = read /\ ~revs'[Current + 1].tomb
          /\ revs'[Current + 1].jobs = by
      <4> DEFINE from == indexer.from
                 r == NewRev(read, from, FALSE, by)
      <4>1. revs'[Current + 1] = r
        BY <1>4, <2>2, Zenon
      <4> HIDE DEF by, same, read, from
      <4>2. r.content = read /\ ~r.tomb /\ r.jobs = by
        BY DEF NewRev
      <4> HIDE DEF r
      <4> QED
        BY <4>1, <4>2
    <3>2. /\ Current' = Current + 1 /\ Current + 1 \notin DOMAIN revs
          /\ DOMAIN revs' = DOMAIN revs \cup {Current + 1}
          /\ \A i \in DOMAIN revs : revs'[i] = revs[i]
      BY <1>4, <1>6, <2>2
    <3> HIDE DEF by, same
    <3> QED
      BY <3>1, <3>2
  <2> QED
    BY <2>1, <2>2
<1>9. indexer'.rev = Current' /\ Current' \in DOMAIN revs' /\ ~revs'[Current'].tomb
      /\ revs'[Current'].content = read
  BY <1>1, <1>4, <1>6, <1>8
<1> HIDE DEF by, same
<1>10. TombInv'
  <2>1. \A i \in DOMAIN revs' : TombRev(revs'[i])
    BY <1>8 DEF IndexInv, TombInv, TombRev
  <2> QED
    BY <1>1, <1>9, <2>1 DEF TombInv
<1>11. ForgetInv'
  <2>1. ASSUME NEW i \in DOMAIN revs'
        PROVE  /\ revs'[i].jobs \subseteq DOMAIN rag
               /\ Holds(revs'[i].content, Deleted) /\ "deletion" \notin unheard =>
                    \E j \in Erasures : j \notin revs'[i].jobs
    <3>1. CASE i \in DOMAIN revs /\ revs'[i] = revs[i]
      BY <3>1 DEF IndexInv, ForgetInv
    <3>2. CASE revs'[i].content = read /\ revs'[i].jobs = by
      <4>1. Holds(read, Deleted) /\ "deletion" \notin unheard => Erasures # {}
        BY <1>1 DEF IndexInv, ForgetInv
      <4>2. \A j \in Erasures : j # indexer.job
        BY <1>1 DEF Erasures
      <4> QED
        BY <1>1, <1>5, <3>2, <4>1, <4>2
    <3>3. CASE /\ revs'[i].content = read /\ i \in DOMAIN revs
               /\ revs'[i].jobs = revs[i].jobs \cup by /\ revs[i].content = read
      <4>1. /\ revs[i].jobs \subseteq DOMAIN rag
            /\ Holds(read, Deleted) /\ "deletion" \notin unheard =>
                 \E j \in Erasures : j \notin revs[i].jobs
        BY <3>3 DEF IndexInv, ForgetInv
      <4>2. \A j \in Erasures : j # indexer.job
        BY <1>1 DEF Erasures
      <4> QED
        BY <1>1, <1>5, <3>3, <4>1, <4>2
    <3> QED
      BY <1>8, <3>1, <3>2, <3>3
  <2> QED
    BY <1>1, <1>2, <1>3, <2>1 DEF IndexInv, ForgetInv
<1>12. PhaseInv'
  BY <1>1, <1>9 DEF PhaseInv
<1>13. SearchInv'
  <2>1. SUFFICES ASSUME NothingWithdrawn, "change" \notin unheard, Pending = {}
                 PROVE  Content # {} /\ Shows' /\ indexer'.rev = Current'
    BY <1>1, <1>2, <1>3 DEF SearchInv
  <2>2. read = Content
    BY <1>1, <2>1 DEF IndexInv, SearchInv
  <2> QED
    BY <1>1, <1>2, <1>7, <1>9, <2>2 DEF Shows
<1>14. GoneInv'
  BY <1>1, <1>2, <1>3 DEF IndexInv, GoneInv
<1>15. AnnounceInv'
  BY <1>1 DEF AnnounceInv
<1> QED
  BY <1>10, <1>11, <1>12, <1>13, <1>14, <1>15 DEF IndexInv

-----------------------------------------------------------------------------
(* The phases of the index that write to revisions.                        *)

LEMMA EmbedKeeps ==
  ASSUME WorkType, ChunkType, IndexInv, IndexEmbed
  PROVE  IndexInv'
<1>1. /\ indexer.pc = "embed" /\ UNCHANGED <<slackVars, withdrawn, rag, chunk, vector>>
      /\ indexer'.pc = "project" /\ indexer'.rev = indexer.rev
  BY DEF IndexEmbed, WorkType, Indexer
<1>2. /\ Content' = Content /\ Deleted' = Deleted /\ NothingWithdrawn' = NothingWithdrawn
      /\ UNCHANGED <<message, imported, unheard>>
  BY <1>1, Unmoved
<1>3. /\ DOMAIN rag' = DOMAIN rag /\ KindsStay /\ Pending' = Pending
      /\ \A j : Targeted(j)' = Targeted(j)
  BY <1>1 DEF KindsStay, Pending, Targeted
<1>4. /\ Len(revs') = Len(revs) /\ DOMAIN revs' = DOMAIN revs
      /\ \A i \in DOMAIN revs : /\ Spared(revs[i], revs'[i])
                                /\ revs'[i].content = revs[i].content
                                /\ revs'[i].embedded = (revs[i].embedded \/ i = indexer.rev)
  BY EmbeddedRevs
<1>5. Current' = Current
  BY <1>4 DEF Current
<1>6. TombInv'
  BY <1>1, <1>4, <1>5, TombKept DEF IndexInv, TombInv, Spared
<1>7. ForgetInv'
  BY <1>1, <1>2, <1>3, <1>4, ForgetKept, NoLoss DEF IndexInv, Covers, Spared
<1>8. PhaseInv'
  BY <1>1, <1>4, <1>5 DEF IndexInv, PhaseInv, Spared
<1>9. SearchInv'
  BY <1>1, <1>2, <1>3, <1>4, <1>5 DEF IndexInv, SearchInv, Shows, Spared
<1>10. GoneInv'
  BY <1>1, <1>2, <1>3 DEF IndexInv, GoneInv
<1>11. AnnounceInv'
  BY <1>1 DEF AnnounceInv
<1> QED
  BY <1>6, <1>7, <1>8, <1>9, <1>10, <1>11 DEF IndexInv

(* What the index leaves unannounced is a chunk that was buried meanwhile. *)
LEMMA ProjectKeeps ==
  ASSUME WorkType, ChunkType, IndexInv, IndexProject
  PROVE  IndexInv'
<1>1. /\ indexer.pc = "project" /\ UNCHANGED <<slackVars, withdrawn, chunk>>
      /\ IndexEnd("done")
  BY DEF IndexProject
<1>2. /\ Content' = Content /\ Deleted' = Deleted /\ NothingWithdrawn' = NothingWithdrawn
      /\ UNCHANGED <<message, imported, unheard>>
  BY <1>1, Unmoved
<1>3. /\ DOMAIN rag' = DOMAIN rag /\ KindsStay /\ Pending' = Pending /\ indexer'.pc = "idle"
  BY <1>1, Ended DEF IdleIndexer
<1>4. /\ Len(revs') = Len(revs) /\ DOMAIN revs' = DOMAIN revs
      /\ \A i \in DOMAIN revs \ {Current} : revs'[i] = revs[i]
      /\ Current \in DOMAIN revs =>
           IF IsPublishable THEN /\ Told(revs[Current], revs'[Current])
                                 /\ revs'[Current].jobs = revs[Current].jobs
                                 /\ vector' = Current
           ELSE revs'[Current] = revs[Current] /\ vector' = vector
  BY ProjectedRevs
<1>5. Current' = Current
  BY <1>4 DEF Current
<1>6. /\ Current \in DOMAIN revs
      /\ revs[Current].tomb \/ IsPublishable
  BY <1>1 DEF IndexInv, PhaseInv, IsPublishable
<1>7. \A i \in DOMAIN revs : /\ revs'[i] = revs[i] \/ Told(revs[i], revs'[i])
                             /\ revs'[i].jobs = revs[i].jobs
                             /\ revs'[i].content = revs[i].content
                             /\ revs'[i].tomb = revs[i].tomb
                             /\ revs'[i].embedded = revs[i].embedded
  BY <1>4 DEF Told
<1>8. TombInv'
  BY <1>1, <1>3, <1>4, <1>5, <1>7, TombKept DEF IndexInv, TombInv
<1>9. ForgetInv'
  BY <1>1, <1>2, <1>3, <1>4, <1>7, ForgetKept, NoLoss DEF IndexInv, Covers
<1>10. PhaseInv'
  BY <1>3 DEF PhaseInv
<1>11. SearchInv'
  <2>1. SUFFICES ASSUME NothingWithdrawn, "change" \notin unheard, Pending = {}
                 PROVE  Shows' /\ vector' = Current' /\ revs'[Current'].embedded
    BY <1>2, <1>3 DEF SearchInv
  <2>2. /\ Shows /\ indexer.rev = Current /\ revs[Current].embedded
    BY <1>1, <2>1 DEF IndexInv, SearchInv
  <2>3. IsPublishable
    BY <2>2 DEF Shows, IsPublishable
  <2> QED
    BY <1>1, <1>2, <1>4, <1>5, <1>6, <1>7, <2>2, <2>3 DEF Shows
<1>12. GoneInv'
  <2>1. \A j \in Pending : Targeted(j)' = Targeted(j)
    BY <1>3 DEF KindsStay, Pending, Targeted
  <2> QED
    BY <1>1, <1>2, <1>3, <2>1 DEF IndexInv, GoneInv
<1>13. AnnounceInv'
  <2>1. \A c \in Consumers : revs'[Current].ready[c] # "none"
    <3>1. CASE IsPublishable
      BY <1>4, <1>6, <3>1 DEF Told
    <3>2. CASE ~IsPublishable /\ revs[Current].tomb
      BY <1>4, <1>6, <3>2 DEF IndexInv, TombInv, TombRev
    <3> QED
      BY <1>6, <3>1, <3>2
  <2> QED
    BY <1>5, <2>1 DEF AnnounceInv
<1> QED
  BY <1>8, <1>9, <1>10, <1>11, <1>12, <1>13 DEF IndexInv

LEMMA BuriesEnd ==
  ASSUME NEW rs, NEW jobs, Buries(rs, jobs), \A i \in DOMAIN rs : TombRev(rs[i])
  PROVE  LET n == Len(revs') IN
         /\ n \in DOMAIN revs' /\ revs'[n].tomb
         /\ \A i \in DOMAIN revs' : TombRev(revs'[i])
         /\ \A i \in DOMAIN revs' :
              \/ revs'[i].content = {} /\ i \in DOMAIN rs /\ revs'[i].jobs = rs[i].jobs \cup jobs
              \/ revs'[i].content = {} /\ revs'[i].jobs = jobs
              \/ /\ i \in DOMAIN rs /\ revs'[i].content = rs[i].content
                 /\ revs'[i].jobs = rs[i].jobs
<1>1. CASE rs[Len(rs)].tomb
  <2>1. /\ Len(rs) \in DOMAIN rs /\ DOMAIN revs' = DOMAIN rs /\ Len(revs') = Len(rs)
        /\ \A i \in DOMAIN rs \ {Len(rs)} : revs'[i] = rs[i]
        /\ Told(rs[Len(rs)], revs'[Len(rs)])
        /\ revs'[Len(rs)].jobs = rs[Len(rs)].jobs \cup jobs
    BY <1>1 DEF Buries
  <2>2. \A i \in DOMAIN revs' : TombRev(revs'[i])
    BY <2>1, TombKept
  <2>3. revs'[Len(rs)].tomb /\ revs'[Len(rs)].content = {}
    BY <1>1, <2>1 DEF Told, TombRev
  <2> QED
    BY <2>1, <2>2, <2>3
<1>2. CASE ~rs[Len(rs)].tomb
  <2>1. /\ Len(rs) \in DOMAIN rs
        /\ DOMAIN revs' = DOMAIN rs \cup {Len(rs) + 1} /\ Len(revs') = Len(rs) + 1
        /\ \A i \in DOMAIN rs : Spared(rs[i], revs'[i]) /\ revs'[i].content = rs[i].content
        /\ revs'[Len(rs) + 1].tomb /\ revs'[Len(rs) + 1].content = {}
        /\ revs'[Len(rs) + 1].mention = "none" /\ revs'[Len(rs) + 1].jobs = jobs
        /\ \A c \in Consumers : revs'[Len(rs) + 1].ready[c] = "waiting"
    BY <1>2 DEF Buries
  <2>2. \A i \in DOMAIN rs : TombRev(revs'[i])
    BY <2>1, TombKept
  <2>3. TombRev(revs'[Len(rs) + 1])
    BY <2>1 DEF TombRev
  <2> QED
    BY <2>1, <2>2, <2>3 DEF Spared
<1> QED
  BY <1>1, <1>2

LEMMA MissingKeeps ==
  ASSUME WorkType, ChunkType, IndexInv, TombstoneMissing
  PROVE  IndexInv'
<1>1. /\ indexer.pc = "missing" /\ UNCHANGED <<slackVars, withdrawn>>
      /\ IndexEnd("done") /\ indexer.job \in DOMAIN rag
      /\ revs = <<>> => UNCHANGED <<revs, chunk>>
  BY DEF TombstoneMissing, WorkType, WorkInv
<1>2. /\ Content' = Content /\ Deleted' = Deleted /\ NothingWithdrawn' = NothingWithdrawn
      /\ UNCHANGED <<message, imported, unheard>>
  BY <1>1, Unmoved
<1>3. /\ DOMAIN rag' = DOMAIN rag /\ KindsStay /\ Pending' = Pending /\ indexer'.pc = "idle"
  BY <1>1, Ended DEF IdleIndexer
<1>l. Current = Len(revs) /\ (revs # <<>> <=> Current \in DOMAIN revs)
  BY Lengths
<1>4. /\ Current' \in DOMAIN revs' => revs'[Current'].tomb /\ chunk'.hidden
      /\ \A i \in DOMAIN revs' : TombRev(revs'[i])
      /\ \A i \in DOMAIN revs' :
           \/ revs'[i].content = {} /\ revs'[i].jobs \subseteq DOMAIN rag
           \/ /\ i \in DOMAIN revs /\ revs'[i].content = revs[i].content
              /\ revs'[i].jobs = revs[i].jobs
  <2>1. CASE revs = <<>>
    <3>1. Current' \notin DOMAIN revs' /\ revs' = revs
      BY <1>1, <1>l, <2>1 DEF Current
    <3> QED
      BY <3>1 DEF IndexInv, TombInv
  <2>2. CASE revs # <<>>
    <3>1. /\ Buries(revs, {indexer.job})
          /\ chunk' = IF revs[Current].tomb THEN chunk ELSE [hidden |-> TRUE, text |-> {}]
      BY <2>2, MissingRevs
    <3>2. chunk'.hidden
      BY <1>l, <2>2, <3>1 DEF IndexInv, TombInv
    <3>3. \A i \in DOMAIN revs : TombRev(revs[i]) /\ revs[i].jobs \subseteq DOMAIN rag
      BY DEF IndexInv, TombInv, ForgetInv
    <3>4. /\ Len(revs') \in DOMAIN revs' /\ revs'[Len(revs')].tomb
          /\ \A i \in DOMAIN revs' : TombRev(revs'[i])
          /\ \A i \in DOMAIN revs' :
               \/ /\ revs'[i].content = {} /\ i \in DOMAIN revs
                  /\ revs'[i].jobs = revs[i].jobs \cup {indexer.job}
               \/ revs'[i].content = {} /\ revs'[i].jobs = {indexer.job}
               \/ /\ i \in DOMAIN revs /\ revs'[i].content = revs[i].content
                  /\ revs'[i].jobs = revs[i].jobs
      BY <3>1, <3>3, BuriesEnd
    <3> QED
      BY <1>1, <3>2, <3>3, <3>4 DEF Current
  <2> QED
    BY <2>1, <2>2
<1>5. TombInv'
  BY <1>3, <1>4 DEF TombInv
<1>6. ForgetInv'
  BY <1>2, <1>3, <1>4, ForgetKept, NoLoss DEF IndexInv, Covers
<1>7. PhaseInv'
  BY <1>3 DEF PhaseInv
<1>8. SearchInv'
  BY <1>1, <1>2, <1>3 DEF IndexInv, SearchInv
<1>9. GoneInv'
  BY <1>3, <1>4 DEF GoneInv
<1>10. AnnounceInv'
  BY <1>4 DEF AnnounceInv, TombRev
<1> QED
  BY <1>5, <1>6, <1>7, <1>8, <1>9, <1>10 DEF IndexInv

LEMMA FailKeeps ==
  ASSUME WorkType, ChunkType, IndexInv, IndexFail
  PROVE  IndexInv'
<1>1. /\ indexer.pc # "idle" /\ UNCHANGED <<slackVars, withdrawn, chunkVars>>
  BY DEF IndexFail
<1>2. /\ Content' = Content /\ Deleted' = Deleted /\ NothingWithdrawn' = NothingWithdrawn
      /\ UNCHANGED <<message, imported, unheard>>
  BY <1>1, Unmoved
<1>3. /\ DOMAIN rag' = DOMAIN rag /\ KindsStay /\ Pending' = Pending \cup {indexer.job}
      /\ indexer.job \in DOMAIN rag /\ indexer'.pc = "idle"
  BY Retried DEF IdleIndexer
<1>4. UNCHANGED <<chunk, revs, vector>> /\ Current' = Current
  BY <1>1 DEF chunkVars, Current
<1>5. TombInv'
  BY <1>3, <1>4 DEF IndexInv, TombInv
<1>6. ForgetInv'
  BY <1>2, <1>3, <1>4, ForgetKept, NoLoss DEF IndexInv, Covers
<1>7. PhaseInv'
  BY <1>3 DEF PhaseInv
<1>8. SearchInv'
  BY <1>3 DEF SearchInv
<1>9. GoneInv'
  <2>1. SUFFICES ASSUME NothingWithdrawn, "change" \notin unheard, Content = {},
                        \A k \in Pending' : ~Targeted(k)
                 PROVE  Current \in DOMAIN revs => revs[Current].tomb
    <3>1. \A k \in Pending' : Targeted(k)' = Targeted(k)
      BY <1>3 DEF KindsStay, Pending, Targeted
    <3> QED
      BY <1>2, <1>3, <1>4, <3>1 DEF GoneInv
  <2>2. ~Targeted(indexer.job) /\ \A k \in Pending : ~Targeted(k)
    BY <1>3, <2>1
  <2> QED
    BY <2>1, <2>2 DEF IndexInv, GoneInv, PhaseInv
<1>10. AnnounceInv'
  BY <1>3 DEF AnnounceInv
<1> QED
  BY <1>5, <1>6, <1>7, <1>8, <1>9, <1>10 DEF IndexInv

(* A withdrawal takes messages away; a chunk it finds is buried at once.   *)
LEMMA PropagationKeeps ==
  ASSUME SlackType, WorkType, ChunkType, IndexInv, NEW s \in Sources, PropagateTombstone(s)
  PROVE  IndexInv'
<1>1. /\ message' = WithoutMessages(s) /\ UNCHANGED <<imported, unheard, rag, indexer>>
      /\ withdrawn[s] = "requested"
      /\ withdrawn' = [withdrawn EXCEPT ![s] = "done"] \/ UNCHANGED withdrawn
  BY DEF PropagateTombstone, workVars
<1>2. ~NothingWithdrawn'
  BY <1>1 DEF NothingWithdrawn, SlackType
<1>3. /\ DOMAIN rag' = DOMAIN rag /\ KindsStay /\ Pending' = Pending
      /\ \A j : Targeted(j)' = Targeted(j)
  BY <1>1 DEF KindsStay, Pending, Targeted
<1>4. \A m \in Messages : message'[m] = message[m] \/ message'[m] = NoMessage
  BY <1>1 DEF WithoutMessages
<1>5. /\ Deleted' \subseteq Deleted
      /\ ~imported => \A m \in Messages : message'[m].state = "absent"
      /\ Content = {} => Content' = {}
  <2>1. NoMessage.state = "absent"
    BY DEF NoMessage
  <2>2. Deleted' \subseteq Deleted
    BY <1>4, <2>1 DEF Deleted
  <2>3. Live' \subseteq Live
    BY <1>4, <2>1 DEF Live
  <2>4. Content = {} => Content' = {}
    BY <2>3 DEF Content
  <2> QED
    BY <1>4, <2>1, <2>2, <2>4, NoLoss DEF IndexInv
<1>l. Current = Len(revs)
  BY Lengths
<1>6. \/ UNCHANGED chunkVars
      \/ /\ Current' \in DOMAIN revs' /\ revs'[Current'].tomb /\ chunk'.hidden
         /\ \A i \in DOMAIN revs' : TombRev(revs'[i])
         /\ \A i \in DOMAIN revs' : revs'[i].content = {} /\ revs'[i].jobs \subseteq DOMAIN rag
  <2>1. CASE UNCHANGED chunkVars
    BY <2>1
  <2>2. ASSUME NEW rs \in Seq(Revision),
               DOMAIN rs = DOMAIN revs /\ Len(rs) = Len(revs),
               \A i \in DOMAIN revs : Spared(revs[i], rs[i]) /\ rs[i].content = {},
               Buries(rs, {}), chunk' = [hidden |-> TRUE, text |-> {}]
        PROVE  /\ Current' \in DOMAIN revs' /\ revs'[Current'].tomb /\ chunk'.hidden
               /\ \A i \in DOMAIN revs' : TombRev(revs'[i])
               /\ \A i \in DOMAIN revs' : revs'[i].content = {} /\ revs'[i].jobs \subseteq DOMAIN rag
    <3>1. \A i \in DOMAIN rs : TombRev(rs[i]) /\ rs[i].jobs \subseteq DOMAIN rag
      <4>1. \A i \in DOMAIN revs : TombRev(revs[i]) /\ revs[i].jobs \subseteq DOMAIN rag
        BY DEF IndexInv, TombInv, ForgetInv
      <4> QED
        BY <2>2, <4>1, TombKept DEF Spared
    <3>2. /\ Len(revs') \in DOMAIN revs' /\ revs'[Len(revs')].tomb
          /\ \A i \in DOMAIN revs' : TombRev(revs'[i])
          /\ \A i \in DOMAIN revs' :
               \/ revs'[i].content = {} /\ i \in DOMAIN rs /\ revs'[i].jobs = rs[i].jobs \cup {}
               \/ revs'[i].content = {} /\ revs'[i].jobs = {}
               \/ /\ i \in DOMAIN rs /\ revs'[i].content = rs[i].content
                  /\ revs'[i].jobs = rs[i].jobs
      BY <2>2, <3>1, BuriesEnd
    <3> QED
      BY <2>2, <3>1, <3>2 DEF Current
  <2> QED
    BY <2>1, <2>2, PropagatedRevs
<1>7. UNCHANGED chunkVars => UNCHANGED <<chunk, revs, vector>> /\ Current' = Current
  BY DEF chunkVars, Current
<1>8. TombInv'
  BY <1>1, <1>6, <1>7 DEF IndexInv, TombInv
<1>9. ForgetInv'
  BY <1>1, <1>3, <1>5, <1>6, <1>7, ForgetKept, NoLoss DEF IndexInv, Covers
<1>10. PhaseInv'
  BY <1>1, <1>3, <1>6, <1>7 DEF IndexInv, PhaseInv
<1>11. SearchInv' /\ GoneInv'
  BY <1>2 DEF SearchInv, GoneInv
<1>12. AnnounceInv'
  <2>1. CASE UNCHANGED chunkVars
    BY <1>1, <1>3, <1>5, <1>7, <2>1 DEF IndexInv, AnnounceInv
  <2>2. CASE /\ Current' \in DOMAIN revs' /\ revs'[Current'].tomb
             /\ \A i \in DOMAIN revs' : TombRev(revs'[i])
    BY <2>2 DEF AnnounceInv, TombRev
  <2> QED
    BY <1>6, <2>1, <2>2
<1> QED
  BY <1>8, <1>9, <1>10, <1>11, <1>12 DEF IndexInv

LEMMA IndexInit == Init => IndexInv
<1> SUFFICES ASSUME Init PROVE IndexInv
  OBVIOUS
<1>1. /\ Len(revs) = 0 /\ DOMAIN revs = {} /\ DOMAIN rag = {} /\ indexer.pc = "idle"
      /\ Current \notin DOMAIN revs
  BY DEF Init, IdleIndexer, Current
<1>2. unheard = {} /\ \A m \in Messages : message[m].state = "absent"
  BY DEF Init, NoMessage
<1>3. Content = {}
  BY <1>2 DEF Content, Live
<1> QED
  BY <1>1, <1>2, <1>3
     DEF IndexInv, ForgetInv, TombInv, PhaseInv, SearchInv, GoneInv, AnnounceInv

LEMMA IndexNext ==
  ASSUME SlackType, WorkType, ChunkType, ErasureInv, IndexInv, [Next]_vars
  PROVE  IndexInv'
<1>1. CASE Api
  BY <1>1, AsideKeeps, MessagesKeep DEF Api, AsideStep, MessageStep
<1>2. CASE Indexing
  BY <1>2, StartKeeps, LoadKeeps, SourcesKeep, PublishKeeps, EmbedKeeps, ProjectKeeps,
     MissingKeeps DEF Indexing
<1>3. CASE \/ \E b \in Bundles : ImportRead(b)
           \/ \E c \in Consumers : Extracting(c) \/ ExtractFail(c)
           \/ \E v \in Reviewers : ApproveCommit(v)
           \/ UNCHANGED vars
  BY <1>3, AsideKeeps DEF AsideStep
<1>4. CASE ImportCommit
  BY <1>4, MessagesKeep DEF MessageStep
<1> QED
  BY <1>1, <1>2, <1>3, <1>4, FailKeeps, PropagationKeeps DEF Next

-----------------------------------------------------------------------------
(* Revisions a person may still make, or has made, a memory of that is     *)
(* held to its text; and those with an open mention.                       *)
HeldMemories == {k \in DOMAIN memories : memories[k].live /\ ~memories[k].loose}
Fruitful == {i \in DOMAIN revs : revs[i].cand = "pending"}
            \cup {memories[k].rev : k \in HeldMemories}
Mentioned == {i \in DOMAIN revs : revs[i].mention = "open"}

(* An extractor that is done with the current revision has cleared the     *)
(* others.                                                                 *)
IsDone(c) == Current \in DOMAIN revs /\ revs[Current].ready[c] = "done"
DeriveInv ==
  /\ \A k \in HeldMemories : revs[memories[k].rev].cand = "approved"
  /\ "memory" \notin Consumers => Fruitful = {}
  /\ "memory" \in Consumers /\ IsDone("memory") => Fruitful \subseteq {Current}
  /\ "graph" \notin Consumers => Mentioned = {}
  /\ "graph" \in Consumers /\ IsDone("graph") => Mentioned \subseteq {Current}

(* Nobody is done with a current revision that was not done with it before. *)
DoneBefore(c) == IsDone(c)' => IsDone(c) /\ Current' = Current

LEMMA DeriveShrinks ==
  ASSUME DeriveInv, Fruitful' \subseteq Fruitful, Mentioned' \subseteq Mentioned,
         \A c \in Consumers : DoneBefore(c),
         \A k \in HeldMemories' : revs'[memories'[k].rev].cand = "approved"
  PROVE  DeriveInv'
BY DEF DeriveInv, DoneBefore

(* Steps that leave candidates, memories and mentions as they are.         *)
LEMMA DeriveStays ==
  ASSUME DeriveInv, MemoryInv, UNCHANGED memories, DOMAIN revs \subseteq DOMAIN revs',
         \A i \in DOMAIN revs : revs'[i].cand = revs[i].cand /\ revs'[i].mention = revs[i].mention,
         \A i \in DOMAIN revs' \ DOMAIN revs :
           revs'[i].cand = "none" /\ revs'[i].mention = "none",
         \A c \in Consumers : DoneBefore(c)
  PROVE  DeriveInv'
<1>1. HeldMemories' = HeldMemories
  BY DEF HeldMemories
<1>2. \A k \in HeldMemories : memories[k].rev \in DOMAIN revs
  BY DEF MemoryInv, HeldMemories
<1>3. Fruitful' \subseteq Fruitful
  BY <1>1 DEF Fruitful
<1>4. Mentioned' \subseteq Mentioned
  BY DEF Mentioned
<1>5. \A k \in HeldMemories' : revs'[memories'[k].rev].cand = "approved"
  BY <1>1, <1>2 DEF DeriveInv
<1> QED
  BY <1>3, <1>4, <1>5, DeriveShrinks

LEMMA DeriveUnmoved ==
  ASSUME DeriveInv, UNCHANGED <<revs, memories>>
  PROVE  DeriveInv'
<1>1. /\ HeldMemories' = HeldMemories /\ Fruitful' = Fruitful /\ Mentioned' = Mentioned
      /\ Current' = Current /\ \A c : IsDone(c)' = IsDone(c)
  BY DEF HeldMemories, Fruitful, Mentioned, Current, IsDone
<1> QED
  BY <1>1 DEF DeriveInv

(* No revision is told less than it was, and none is done for being told.  *)
LEMMA SameDone ==
  ASSUME Current' = Current, DOMAIN revs' = DOMAIN revs,
         \A c \in Consumers : Current \in DOMAIN revs =>
           (revs'[Current].ready[c] = "done" => revs[Current].ready[c] = "done")
  PROVE  \A c \in Consumers : DoneBefore(c)
BY DEF DoneBefore, IsDone

LEMMA IndexDerives ==
  ASSUME WorkType, ChunkType, ErasureInv, DeriveInv,
         IndexPublish \/ IndexEmbed \/ IndexProject \/ TombstoneMissing
  PROVE  DeriveInv'
<1>m. MemoryInv
  BY DEF ErasureInv
<1>l. Current = Len(revs) /\ Current' = Len(revs') /\ (revs # <<>> <=> Current \in DOMAIN revs)
  BY Lengths DEF Current
<1>1. CASE IndexPublish
  <2> DEFINE by == IF Targeted(indexer.job) THEN {indexer.job} ELSE {}
             same == Unchanged(indexer.read, indexer.from)
             new == NewRev(indexer.read, indexer.from, FALSE, by)
  <2>1. /\ same =>
             /\ Current \in DOMAIN revs /\ DOMAIN revs' = DOMAIN revs /\ Len(revs') = Len(revs)
             /\ \A i \in DOMAIN revs \ {Current} : revs'[i] = revs[i]
             /\ revs'[Current] = [revs[Current] EXCEPT !.jobs = revs[Current].jobs \cup by]
             /\ revs[Current] \in Revision
        /\ ~same =>
             /\ DOMAIN revs' = DOMAIN revs \cup {Current + 1} /\ Len(revs') = Current + 1
             /\ Current + 1 \notin DOMAIN revs
             /\ \A i \in DOMAIN revs : revs'[i] = revs[i]
             /\ revs'[Current + 1] = new
    BY <1>1, PublishedRevs
  <2>2. UNCHANGED memories
    BY <1>1 DEF IndexPublish
  <2>3. /\ new.cand = "none" /\ new.mention = "none" /\ \A c \in Consumers : new.ready[c] = "none"
    BY DEF NewRev
  <2> HIDE DEF new, by
  <2>4. CASE same
    <3>1. /\ revs'[Current].cand = revs[Current].cand
          /\ revs'[Current].mention = revs[Current].mention
          /\ revs'[Current].ready = revs[Current].ready
      BY <2>1, <2>4 DEF Revision
    <3>2. \A c \in Consumers : DoneBefore(c)
      BY <1>l, <2>1, <2>4, <3>1, SameDone
    <3> HIDE DEF same
    <3> QED
      BY <1>m, <2>1, <2>2, <2>4, <3>1, <3>2, DeriveStays
  <2>5. CASE ~same
    <3>1. \A c \in Consumers : DoneBefore(c)
      BY <1>l, <2>1, <2>3, <2>5 DEF DoneBefore, IsDone
    <3> HIDE DEF same
    <3> QED
      BY <1>m, <2>1, <2>2, <2>3, <2>5, <3>1, DeriveStays
  <2> QED
    BY <2>4, <2>5
<1>2. CASE IndexEmbed
  <2>1. /\ Len(revs') = Len(revs) /\ DOMAIN revs' = DOMAIN revs
        /\ \A i \in DOMAIN revs : Spared(revs[i], revs'[i]) /\ revs'[i].cand = revs[i].cand
    BY <1>2, EmbeddedRevs
  <2>2. UNCHANGED memories
    BY <1>2 DEF IndexEmbed
  <2>3. \A c \in Consumers : DoneBefore(c)
    BY <1>l, <2>1, SameDone DEF Spared
  <2> QED
    BY <1>m, <2>1, <2>2, <2>3, DeriveStays DEF Spared
<1>3. CASE IndexProject
  <2>1. /\ Len(revs') = Len(revs) /\ DOMAIN revs' = DOMAIN revs
        /\ \A i \in DOMAIN revs \ {Current} : revs'[i] = revs[i]
        /\ Current \in DOMAIN revs =>
             Told(revs[Current], revs'[Current]) \/ revs'[Current] = revs[Current]
    BY <1>3, ProjectedRevs
  <2>2. UNCHANGED memories
    BY <1>3 DEF IndexProject
  <2>3. \A c \in Consumers : DoneBefore(c)
    BY <1>l, <2>1, SameDone DEF Told
  <2> QED
    BY <1>m, <2>1, <2>2, <2>3, DeriveStays DEF Told
<1>4. CASE TombstoneMissing /\ revs = <<>>
  BY <1>4, DeriveUnmoved DEF TombstoneMissing
<1>5. CASE TombstoneMissing /\ revs # <<>>
  <2>1. Buries(revs, {indexer.job})
    BY <1>5, MissingRevs
  <2>2. UNCHANGED memories
    BY <1>5 DEF TombstoneMissing
  <2>3. /\ DOMAIN revs \subseteq DOMAIN revs'
        /\ \A i \in DOMAIN revs : /\ revs'[i].cand = revs[i].cand
                                  /\ revs'[i].mention = revs[i].mention
        /\ \A i \in DOMAIN revs' \ DOMAIN revs :
             revs'[i].cand = "none" /\ revs'[i].mention = "none"
    BY <2>1 DEF Buries, Told, Spared
  <2>4. \A c \in Consumers : DoneBefore(c)
    BY <1>l, <2>1 DEF DoneBefore, IsDone, Buries, Told
  <2> QED
    BY <1>m, <2>2, <2>3, <2>4, DeriveStays
<1> QED
  BY <1>1, <1>2, <1>3, <1>4, <1>5

(* An invalidation takes the memories of the revisions it rejects.         *)
LEMMA StartDerives ==
  ASSUME ChunkType, ErasureInv, DeriveInv, NEW j \in DOMAIN rag, IndexStart(j)
  PROVE  DeriveInv'
<1>1. CASE UNCHANGED chunkVars
  BY <1>1, DeriveUnmoved DEF chunkVars
<1>2. CASE /\ Len(revs') = Len(revs) /\ DOMAIN revs' = DOMAIN revs
           /\ \A i \in DOMAIN revs :
                \/ j \in revs[i].jobs /\ revs'[i] = revs[i]
                \/ /\ j \notin revs[i].jobs /\ Spared(revs[i], revs'[i])
                   /\ revs'[i].cand \in {"none", "rejected"}
           /\ KillMemories(Promoted(Affected(j)), rag[j].kind = "deleted")
  <2> DEFINE K == Promoted(Affected(j))
  <2>1. /\ MemoriesAge
        /\ \A k \in DOMAIN memories : k \in K => ~memories'[k].live
    <3>1. PICK w \in BOOLEAN : KillMemories(K, w)
      BY <1>2
    <3> HIDE DEF K
    <3> QED
      BY <3>1, Killed
  <2>2. \A i \in DOMAIN revs : /\ revs'[i].mention = revs[i].mention
                               /\ revs'[i].ready = revs[i].ready
                               /\ i \in Affected(j) \/ revs'[i] = revs[i]
                               /\ revs'[i].cand = "pending" => revs[i].cand = "pending"
    BY <1>2 DEF Spared, Affected
  <2>3. HeldMemories' \subseteq HeldMemories /\ \A k \in HeldMemories' : k \notin K
    BY <2>1 DEF HeldMemories, MemoriesAge
  <2>4. ASSUME NEW k \in HeldMemories'
        PROVE  /\ memories'[k].rev = memories[k].rev /\ memories[k].rev \in DOMAIN revs
               /\ revs'[memories[k].rev] = revs[memories[k].rev]
    <3>1. /\ k \in DOMAIN memories /\ memories[k].rev \in DOMAIN revs
          /\ revs[memories[k].rev].promoted = k
      BY <2>3 DEF ErasureInv, MemoryInv, HeldMemories
    <3>2. k # 0
      BY <3>1, LenProperties DEF ChunkType
    <3>3. memories[k].rev \notin Affected(j)
      BY <2>3, <3>1, <3>2 DEF Promoted
    <3> QED
      BY <2>1, <2>2, <3>1, <3>3 DEF MemoriesAge
  <2>5. Fruitful' \subseteq Fruitful
    BY <1>2, <2>2, <2>3, <2>4 DEF Fruitful
  <2>6. Mentioned' \subseteq Mentioned
    BY <1>2, <2>2 DEF Mentioned
  <2>7. \A c \in Consumers : DoneBefore(c)
    BY <1>2, <2>2, SameDone DEF Current
  <2>8. \A k \in HeldMemories' : revs'[memories'[k].rev].cand = "approved"
    BY <2>3, <2>4 DEF DeriveInv
  <2> QED
    BY <2>5, <2>6, <2>7, <2>8, DeriveShrinks
<1> QED
  BY <1>1, <1>2, PreparedRevs

LEMMA PropagationDerives ==
  ASSUME ChunkType, ErasureInv, DeriveInv, NEW s \in Sources, PropagateTombstone(s)
  PROVE  DeriveInv'
<1>1. CASE UNCHANGED chunkVars
  BY <1>1, DeriveUnmoved DEF chunkVars
<1>2. ASSUME NEW rs \in Seq(Revision),
             DOMAIN rs = DOMAIN revs /\ Len(rs) = Len(revs),
             \A i \in DOMAIN revs : /\ Spared(revs[i], rs[i])
                                    /\ rs[i].cand \in {"none", "rejected"},
             Buries(rs, {}),
             KillMemories({k \in Promoted(DOMAIN revs) : memories[k].live}, TRUE)
      PROVE  DeriveInv'
  <2> DEFINE K == {k \in Promoted(DOMAIN revs) : memories[k].live}
  <2>1. /\ MemoriesAge
        /\ \A k \in DOMAIN memories : k \in K => ~memories'[k].live
    <3>1. PICK w \in BOOLEAN : KillMemories(K, w)
      BY <1>2
    <3> HIDE DEF K
    <3> QED
      BY <3>1, Killed
  <2>2. \A k \in HeldMemories : k \in K
    <3>1. ASSUME NEW k \in HeldMemories PROVE k \in K
      <4>1. /\ k \in DOMAIN memories /\ memories[k].rev \in DOMAIN revs /\ memories[k].live
            /\ revs[memories[k].rev].promoted = k
        BY <3>1 DEF ErasureInv, MemoryInv, HeldMemories
      <4>2. k # 0
        BY <4>1, LenProperties DEF ChunkType
      <4> QED
        BY <4>1, <4>2 DEF Promoted
    <3> QED
      BY <3>1
  <2>3. HeldMemories' = {}
    BY <2>1, <2>2 DEF HeldMemories, MemoriesAge
  <2>4. \A i \in DOMAIN revs' : /\ revs'[i].cand # "pending"
                                /\ revs'[i].mention = "open" =>
                                     i \in DOMAIN revs /\ revs[i].mention = "open"
    <3>1. \A i \in DOMAIN rs : rs[i].cand # "pending" /\ rs[i].mention = revs[i].mention
      BY <1>2 DEF Spared
    <3>2. CASE rs[Len(rs)].tomb
      <4>1. \A i \in DOMAIN revs' : /\ i \in DOMAIN rs
                                    /\ revs'[i].cand = rs[i].cand
                                    /\ revs'[i].mention = rs[i].mention
        BY <1>2, <3>2 DEF Buries, Told
      <4> QED
        BY <1>2, <3>1, <4>1
    <3>3. CASE ~rs[Len(rs)].tomb
      <4>1. /\ DOMAIN revs' = DOMAIN rs \cup {Len(rs) + 1}
            /\ \A i \in DOMAIN rs : /\ revs'[i].cand = rs[i].cand
                                    /\ revs'[i].mention = rs[i].mention
            /\ revs'[Len(rs) + 1].cand = "none" /\ revs'[Len(rs) + 1].mention = "none"
        BY <1>2, <3>3 DEF Buries, Spared
      <4> QED
        BY <1>2, <3>1, <4>1
    <3> QED
      BY <3>2, <3>3
  <2>5. Fruitful' = {} /\ Mentioned' \subseteq Mentioned
    BY <2>3, <2>4 DEF Fruitful, Mentioned
  <2>6. \A c \in Consumers : DoneBefore(c)
    BY <1>2 DEF DoneBefore, IsDone, Buries, Told, Spared, Current
  <2> QED
    BY <2>3, <2>5, <2>6, DeriveShrinks
<1> QED
  BY <1>1, <1>2, PropagatedRevs

-----------------------------------------------------------------------------
(* The extractor of memories, on the current revision, rejects the         *)
(* candidates of all others and takes the memories made of them.           *)
LEMMA MemoryCommitRevs ==
  ASSUME ChunkType, "memory" \in Consumers, MemoryCommit
  PROVE  LET x == extractor["memory"] IN
         /\ x.erase \in BOOLEAN
         /\ DOMAIN revs' = DOMAIN revs /\ Len(revs') = Len(revs)
         /\ \A i \in DOMAIN revs :
              /\ revs'[i].mention = revs[i].mention
              /\ \A c \in Consumers : c # "memory" \/ i # x.rev =>
                                        revs'[i].ready[c] = revs[i].ready[c]
              /\ ~StillCurrent("memory") => revs'[i].cand = revs[i].cand
              /\ StillCurrent("memory") =>
                   /\ i # x.rev => revs'[i].cand \notin {"pending", "approved"}
                   /\ i = x.rev /\ revs[i].cand = "approved" => revs'[i].cand = "approved"
<1> DEFINE x == extractor["memory"]
           stale == Stale(x.rev, x.erase)
           step(i) == IF i \in stale THEN RejectRev(revs[i], x.erase)
                      ELSE IF i = x.rev /\ x.live THEN Derive(revs[i]) ELSE revs[i]
           kept(i) == IF StillCurrent("memory") THEN step(i) ELSE revs[i]
           new(i) == IF i = x.rev THEN [kept(i) EXCEPT !.ready["memory"] = "done"]
                     ELSE kept(i)
           same(r, s) == s.mention = r.mention /\ s.ready = r.ready
<1>1. revs' = [i \in DOMAIN revs |-> new(i)]
  BY DEF MemoryCommit
<1>2. x.erase \in BOOLEAN /\ \A i \in DOMAIN revs : revs[i] \in Revision
  BY ElementOfSeq, LenProperties DEF ChunkType, Extractor
<1>3. ASSUME NEW i \in DOMAIN revs
      PROVE  /\ kept(i) \in Revision /\ same(revs[i], kept(i))
             /\ ~StillCurrent("memory") => kept(i).cand = revs[i].cand
             /\ StillCurrent("memory") =>
                  /\ i # x.rev => kept(i).cand \notin {"pending", "approved"}
                  /\ i = x.rev /\ revs[i].cand = "approved" => kept(i).cand = "approved"
  <2>1. ASSUME NEW b \in BOOLEAN
        PROVE  LET s == RejectRev(revs[i], b) IN
               /\ s \in Revision /\ same(revs[i], s)
               /\ s.cand \notin {"pending", "approved"}
    BY <1>2 DEF RejectRev, Revision
  <2>2. LET s == Derive(revs[i]) IN
        /\ s \in Revision /\ same(revs[i], s)
        /\ revs[i].cand = "approved" => s.cand = "approved"
    BY <1>2 DEF Derive, Revision
  <2>3. CASE StillCurrent("memory") /\ i \in stale
    BY <1>2, <2>1, <2>3 DEF Stale
  <2>4. CASE StillCurrent("memory") /\ i \notin stale /\ i # x.rev
    BY <1>2, <2>4 DEF Stale
  <2>5. CASE StillCurrent("memory") /\ i \notin stale /\ i = x.rev
    BY <1>2, <2>2, <2>5
  <2>6. CASE ~StillCurrent("memory")
    BY <1>2, <2>6
  <2> QED
    BY <2>3, <2>4, <2>5, <2>6
<1> HIDE DEF kept
<1>4. ASSUME NEW i \in DOMAIN revs
      PROVE  /\ new(i) \in Revision /\ new(i).mention = kept(i).mention
             /\ new(i).cand = kept(i).cand
             /\ \A c \in Consumers : c # "memory" \/ i # x.rev =>
                                       new(i).ready[c] = kept(i).ready[c]
  BY <1>3 DEF Revision
<1> HIDE DEF new
<1>5. revs' \in [DOMAIN revs -> Revision]
  BY <1>1, <1>4
<1>6. DOMAIN revs' = DOMAIN revs /\ Len(revs') = Len(revs)
  BY <1>5, Mapped DEF ChunkType
<1> QED
  BY <1>1, <1>2, <1>3, <1>4, <1>6

LEMMA MemoryDerives ==
  ASSUME ChunkType, ErasureInv, DeriveInv, "memory" \in Consumers, MemoryCommit
  PROVE  DeriveInv'
<1> DEFINE x == extractor["memory"]
           stale == Stale(x.rev, x.erase)
<1>1. /\ x.erase \in BOOLEAN
      /\ DOMAIN revs' = DOMAIN revs /\ Len(revs') = Len(revs)
      /\ \A i \in DOMAIN revs :
           /\ revs'[i].mention = revs[i].mention
           /\ \A c \in Consumers : c # "memory" \/ i # x.rev =>
                                     revs'[i].ready[c] = revs[i].ready[c]
           /\ ~StillCurrent("memory") => revs'[i].cand = revs[i].cand
           /\ StillCurrent("memory") =>
                /\ i # x.rev => revs'[i].cand \notin {"pending", "approved"}
                /\ i = x.rev /\ revs[i].cand = "approved" => revs'[i].cand = "approved"
  BY MemoryCommitRevs
<1>2. Current' = Current
  BY <1>1 DEF Current
<1>3. CASE ~StillCurrent("memory")
  <2>1. UNCHANGED memories
    BY <1>3 DEF MemoryCommit
  <2>2. \A c \in Consumers : DoneBefore(c)
    BY <1>1, <1>2, <1>3, SameDone DEF StillCurrent
  <2> QED
    BY <1>1, <1>3, <2>1, <2>2, DeriveStays DEF ErasureInv
<1>4. CASE StillCurrent("memory")
  <2>1. /\ MemoriesAge
        /\ \A k \in DOMAIN memories : k \in Promoted(stale) => ~memories'[k].live
    <3>1. KillMemories(Promoted(stale), x.erase)
      BY <1>4 DEF MemoryCommit
    <3> QED
      BY <1>1, <3>1, Killed
  <2>2. HeldMemories' \subseteq HeldMemories /\ \A k \in HeldMemories' : k \notin Promoted(stale)
    BY <2>1 DEF HeldMemories, MemoriesAge
  <2>3. ASSUME NEW k \in HeldMemories'
        PROVE  memories'[k].rev = Current /\ revs'[Current].cand = "approved"
    <3>1. /\ k \in DOMAIN memories /\ memories[k].rev \in DOMAIN revs
          /\ revs[memories[k].rev].promoted = k /\ revs[memories[k].rev].cand = "approved"
      BY <2>2 DEF ErasureInv, MemoryInv, HeldMemories, DeriveInv
    <3>2. k # 0
      BY <3>1, LenProperties DEF ChunkType
    <3>3. memories[k].rev \notin stale
      BY <2>2, <3>1, <3>2 DEF Promoted
    <3>4. memories[k].rev = x.rev
      BY <3>1, <3>3 DEF Stale
    <3> QED
      BY <1>1, <1>4, <2>1, <3>1, <3>4 DEF StillCurrent, MemoriesAge
  <2>4. Fruitful' \subseteq {Current}
    BY <1>1, <1>4, <2>3 DEF Fruitful, StillCurrent
  <2>5. Mentioned' = Mentioned
    BY <1>1 DEF Mentioned
  <2>6. "graph" \in Consumers => (IsDone("graph")' => IsDone("graph"))
    BY <1>1, <1>2 DEF IsDone
  <2> QED
    BY <1>2, <2>3, <2>4, <2>5, <2>6 DEF DeriveInv
<1> QED
  BY <1>3, <1>4

(* The extractor of the graph closes the mentions of all others.           *)
LEMMA GraphCommitRevs ==
  ASSUME ChunkType, "graph" \in Consumers, GraphCommit
  PROVE  LET x == extractor["graph"] IN
         /\ DOMAIN revs' = DOMAIN revs /\ Len(revs') = Len(revs)
         /\ \A i \in DOMAIN revs :
              /\ revs'[i].cand = revs[i].cand
              /\ \A c \in Consumers : c # "graph" \/ i # x.rev =>
                                        revs'[i].ready[c] = revs[i].ready[c]
              /\ ~StillCurrent("graph") => revs'[i].mention = revs[i].mention
              /\ StillCurrent("graph") /\ i # x.rev => revs'[i].mention # "open"
<1> DEFINE x == extractor["graph"]
           close(r) == IF r.mention = "open" THEN [r EXCEPT !.mention = "closed"] ELSE r
           open(r) == IF x.live /\ r.mention = "none" THEN [r EXCEPT !.mention = "open"] ELSE r
           step(i) == IF i # x.rev THEN close(revs[i])
                      ELSE open(IF chunk.hidden THEN close(revs[i]) ELSE revs[i])
           kept(i) == IF StillCurrent("graph") THEN step(i) ELSE revs[i]
           new(i) == IF i = x.rev THEN [kept(i) EXCEPT !.ready["graph"] = "done"]
                     ELSE kept(i)
           same(r, s) == s.cand = r.cand /\ s.ready = r.ready
<1>1. revs' = [i \in DOMAIN revs |-> new(i)]
  BY DEF GraphCommit
<1>2. \A i \in DOMAIN revs : revs[i] \in Revision
  BY ElementOfSeq, LenProperties DEF ChunkType
<1>3. \A r \in Revision : /\ close(r) \in Revision /\ same(r, close(r))
                          /\ close(r).mention # "open"
                          /\ open(r) \in Revision /\ same(r, open(r))
  BY DEF Revision
<1> HIDE DEF close, open
<1>4. ASSUME NEW i \in DOMAIN revs
      PROVE  /\ kept(i) \in Revision /\ same(revs[i], kept(i))
             /\ ~StillCurrent("graph") => kept(i).mention = revs[i].mention
             /\ StillCurrent("graph") /\ i # x.rev => kept(i).mention # "open"
  BY <1>2, <1>3
<1> HIDE DEF kept
<1>5. ASSUME NEW i \in DOMAIN revs
      PROVE  /\ new(i) \in Revision /\ new(i).mention = kept(i).mention
             /\ new(i).cand = kept(i).cand
             /\ \A c \in Consumers : c # "graph" \/ i # x.rev =>
                                       new(i).ready[c] = kept(i).ready[c]
  BY <1>4 DEF Revision
<1> HIDE DEF new
<1>6. revs' \in [DOMAIN revs -> Revision]
  BY <1>1, <1>5
<1>7. DOMAIN revs' = DOMAIN revs /\ Len(revs') = Len(revs)
  BY <1>6, Mapped DEF ChunkType
<1> QED
  BY <1>1, <1>4, <1>5, <1>7

LEMMA GraphDerives ==
  ASSUME ChunkType, ErasureInv, DeriveInv, "graph" \in Consumers, GraphCommit
  PROVE  DeriveInv'
<1> DEFINE x == extractor["graph"]
<1>1. /\ DOMAIN revs' = DOMAIN revs /\ Len(revs') = Len(revs)
      /\ \A i \in DOMAIN revs :
           /\ revs'[i].cand = revs[i].cand
           /\ \A c \in Consumers : c # "graph" \/ i # x.rev =>
                                     revs'[i].ready[c] = revs[i].ready[c]
           /\ ~StillCurrent("graph") => revs'[i].mention = revs[i].mention
           /\ StillCurrent("graph") /\ i # x.rev => revs'[i].mention # "open"
  BY GraphCommitRevs
<1>2. Current' = Current /\ UNCHANGED memories
  BY <1>1 DEF Current, GraphCommit
<1>3. CASE ~StillCurrent("graph")
  <2>1. \A c \in Consumers : DoneBefore(c)
    BY <1>1, <1>2, <1>3, SameDone DEF StillCurrent
  <2> QED
    BY <1>1, <1>2, <1>3, <2>1, DeriveStays DEF ErasureInv
<1>4. CASE StillCurrent("graph")
  <2>1. HeldMemories' = HeldMemories
    BY <1>2 DEF HeldMemories
  <2>2. \A k \in HeldMemories : memories[k].rev \in DOMAIN revs
    BY DEF ErasureInv, MemoryInv, HeldMemories
  <2>3. \A k \in HeldMemories' : revs'[memories'[k].rev].cand = "approved"
    BY <1>1, <1>2, <2>1, <2>2 DEF DeriveInv
  <2>4. Fruitful' = Fruitful
    BY <1>1, <1>2, <2>1 DEF Fruitful
  <2>5. Mentioned' \subseteq {Current}
    BY <1>1, <1>4 DEF Mentioned, StillCurrent
  <2>6. "memory" \in Consumers => (IsDone("memory")' => IsDone("memory"))
    BY <1>1, <1>2 DEF IsDone
  <2> QED
    BY <1>2, <2>3, <2>4, <2>5, <2>6 DEF DeriveInv
<1> QED
  BY <1>3, <1>4

-----------------------------------------------------------------------------
(* The steps left: an extractor that reads, and people.                    *)

LEMMA ReadDerives ==
  ASSUME ChunkType, ErasureInv, DeriveInv, NEW c \in Consumers, NEW n \in DOMAIN revs,
         ExtractRead(c, n)
  PROVE  DeriveInv'
<1>1. CASE n # Current
  <2> DEFINE e == [revs[n] EXCEPT !.ready[c] = "done"]
  <2>1. revs' = [revs EXCEPT ![n] = e] /\ UNCHANGED memories
    BY <1>1 DEF ExtractRead
  <2>2. revs[n] \in Revision
    BY ElementOfSeq, LenProperties DEF ChunkType
  <2>3. e \in Revision /\ e.cand = revs[n].cand /\ e.mention = revs[n].mention
    BY <2>2 DEF Revision
  <2> HIDE DEF e
  <2>4. /\ DOMAIN revs' = DOMAIN revs /\ Len(revs') = Len(revs)
        /\ \A i \in DOMAIN revs : revs'[i] = IF i = n THEN e ELSE revs[i]
    BY <2>1, <2>3, Placed DEF ChunkType
  <2>5. \A d \in Consumers : DoneBefore(d)
    BY <1>1, <2>4, SameDone DEF Current
  <2> QED
    BY <2>1, <2>3, <2>4, <2>5, DeriveStays DEF ErasureInv
<1>2. CASE n = Current
  BY <1>2, DeriveUnmoved DEF ExtractRead
<1> QED
  BY <1>1, <1>2

(* A memory is held to its text only if its approval found the candidate   *)
(* pending; the one approved before it is loose from then on.              *)
LEMMA ApproveDerives ==
  ASSUME ChunkType, ErasureInv, DeriveInv, NEW v \in Reviewers, ApproveCommit(v)
  PROVE  DeriveInv'
<1> DEFINE n == reviewer[v]
           new == [rev |-> n, live |-> TRUE, filled |-> TRUE,
                   loose |-> revs[n].cand # "pending"]
           old == Loosened({revs[n].promoted})
           last == Len(memories) + 1
           e == [revs[n] EXCEPT !.cand = "approved", !.promoted = last]
<1>1. /\ n # 0 /\ memories' = Append(old, new)
      /\ revs' = [revs EXCEPT ![n].cand = "approved", ![n].promoted = Len(memories) + 1]
  BY DEF ApproveCommit
<1>2. n \in DOMAIN revs /\ revs[n] \in Revision
  BY <1>1, ElementOfSeq, LenProperties DEF ChunkType, Current
<1>3. /\ e \in Revision /\ e.cand = "approved" /\ e.mention = revs[n].mention
      /\ e.ready = revs[n].ready
  <2>1. last \in Nat
    BY LenProperties DEF ChunkType
  <2> HIDE DEF last
  <2> QED
    BY <1>2, <2>1 DEF Revision
<1>4. revs' = [revs EXCEPT ![n] = e]
  BY <1>1, <1>2 DEF ChunkType
<1> HIDE DEF e
<1>5. /\ Len(revs') = Len(revs) /\ DOMAIN revs' = DOMAIN revs
      /\ \A i \in DOMAIN revs : revs'[i] = IF i = n THEN e ELSE revs[i]
  BY <1>2, <1>3, <1>4, Placed DEF ChunkType
<1>6. new \in Memory /\ new.rev = n /\ new.loose = (revs[n].cand # "pending")
  BY <1>2, LenProperties DEF Memory, ChunkType
<1>7. /\ old \in Seq(Memory) /\ Len(old) = Len(memories) /\ DOMAIN old = DOMAIN memories
      /\ \A k \in DOMAIN memories :
           /\ old[k].rev = memories[k].rev /\ old[k].live = memories[k].live
           /\ ~old[k].loose => ~memories[k].loose /\ k # revs[n].promoted
  <2> DEFINE f(k) == IF k \in {revs[n].promoted} THEN [memories[k] EXCEPT !.loose = TRUE]
                     ELSE memories[k]
  <2>1. old = [k \in DOMAIN memories |-> f(k)]
    BY DEF Loosened
  <2>2. \A k \in DOMAIN memories :
          /\ f(k) \in Memory /\ f(k).rev = memories[k].rev /\ f(k).live = memories[k].live
          /\ ~f(k).loose => ~memories[k].loose /\ k # revs[n].promoted
    <3>1. \A k \in DOMAIN memories : memories[k] \in Memory
      BY ElementOfSeq, LenProperties DEF ChunkType
    <3> QED
      BY <3>1 DEF Memory
  <2> HIDE DEF f, old
  <2>3. old \in [DOMAIN memories -> Memory]
    BY <2>1, <2>2
  <2>4. memories \in Seq(Memory)
    BY DEF ChunkType
  <2> QED
    BY <2>1, <2>2, <2>3, <2>4, Mapped
<1> HIDE DEF old, new
<1>8. /\ DOMAIN memories' = 1 .. last
      /\ \A k \in DOMAIN memories : memories'[k] = old[k]
      /\ memories'[last] = new
  BY <1>1, <1>6, <1>7, Extended
<1>9. ASSUME NEW k \in HeldMemories'
      PROVE  \/ /\ k \in HeldMemories /\ memories'[k].rev = memories[k].rev
                /\ memories[k].rev \in DOMAIN revs /\ memories[k].rev # n
             \/ revs[n].cand = "pending" /\ memories'[k].rev = n
  <2>1. CASE k = last
    BY <1>6, <1>8, <2>1 DEF HeldMemories
  <2>2. CASE k # last
    <3>1. k \in DOMAIN memories
      BY <1>8, <2>2, LenProperties DEF HeldMemories, ChunkType
    <3>2. /\ memories'[k].rev = memories[k].rev /\ k \in HeldMemories /\ k # revs[n].promoted
      BY <1>7, <1>8, <3>1 DEF HeldMemories
    <3> QED
      BY <3>2 DEF HeldMemories, ErasureInv, MemoryInv
  <2> QED
    BY <2>1, <2>2
<1>10. \A k \in HeldMemories' : revs'[memories'[k].rev].cand = "approved"
  BY <1>2, <1>3, <1>5, <1>9 DEF DeriveInv
<1>11. Fruitful' \subseteq Fruitful
  BY <1>2, <1>3, <1>5, <1>9 DEF Fruitful
<1>12. Mentioned' \subseteq Mentioned
  BY <1>3, <1>5 DEF Mentioned
<1>13. \A c \in Consumers : DoneBefore(c)
  BY <1>3, <1>5, SameDone DEF Current
<1> QED
  BY <1>10, <1>11, <1>12, <1>13, DeriveShrinks

LEMMA PeopleDerive ==
  ASSUME ChunkType, ErasureInv, DeriveInv,
         \/ \E n \in DOMAIN revs : RejectCandidate(n)
         \/ \E k \in DOMAIN memories : DeleteMemory(k)
  PROVE  DeriveInv'
<1>1. ASSUME NEW n \in DOMAIN revs, RejectCandidate(n)
      PROVE  DeriveInv'
  <2> DEFINE e == [revs[n] EXCEPT !.cand = "rejected"]
  <2>1. revs' = [revs EXCEPT ![n] = e] /\ memories' = Loosened({revs[n].promoted})
    BY <1>1 DEF RejectCandidate
  <2>2. revs[n] \in Revision
    BY <1>1, ElementOfSeq, LenProperties DEF ChunkType
  <2>3. /\ e \in Revision /\ e.cand = "rejected" /\ e.mention = revs[n].mention
        /\ e.ready = revs[n].ready
    BY <2>2 DEF Revision
  <2> HIDE DEF e
  <2>4. /\ DOMAIN revs' = DOMAIN revs /\ Len(revs') = Len(revs)
        /\ \A i \in DOMAIN revs : revs'[i] = IF i = n THEN e ELSE revs[i]
    BY <2>1, <2>3, Placed DEF ChunkType
  <2>5. MemoriesAge /\ \A k \in DOMAIN memories \cap {revs[n].promoted} : memories'[k].loose
    BY <2>1, LooseAge
  <2>6. ASSUME NEW k \in HeldMemories'
        PROVE  /\ k \in HeldMemories /\ memories'[k].rev = memories[k].rev
               /\ memories[k].rev \in DOMAIN revs /\ memories[k].rev # n
    BY <2>5 DEF HeldMemories, MemoriesAge, ErasureInv, MemoryInv
  <2>7. \A k \in HeldMemories' : revs'[memories'[k].rev].cand = "approved"
    BY <2>4, <2>6 DEF DeriveInv
  <2>8. Fruitful' \subseteq Fruitful
    BY <2>3, <2>4, <2>6 DEF Fruitful
  <2>9. Mentioned' \subseteq Mentioned
    BY <2>3, <2>4 DEF Mentioned
  <2>10. \A c \in Consumers : DoneBefore(c)
    BY <2>3, <2>4, SameDone DEF Current
  <2> QED
    BY <2>7, <2>8, <2>9, <2>10, DeriveShrinks
<1>2. ASSUME NEW k \in DOMAIN memories, DeleteMemory(k)
      PROVE  DeriveInv'
  <2> DEFINE e == [memories[k] EXCEPT !.live = FALSE]
  <2>1. memories' = [memories EXCEPT ![k] = e] /\ UNCHANGED revs
    BY <1>2 DEF DeleteMemory
  <2>2. memories[k] \in Memory
    BY ElementOfSeq, LenProperties DEF ChunkType
  <2>3. e \in Memory /\ e.rev = memories[k].rev /\ ~e.live /\ e.loose = memories[k].loose
    BY <2>2 DEF Memory
  <2> HIDE DEF e
  <2>4. /\ DOMAIN memories' = DOMAIN memories
        /\ \A i \in DOMAIN memories : memories'[i] = IF i = k THEN e ELSE memories[i]
    BY <2>1, <2>3, Placed DEF ChunkType
  <2>5. \A i \in HeldMemories' : i \in HeldMemories /\ memories'[i].rev = memories[i].rev
    BY <2>3, <2>4 DEF HeldMemories
  <2>6. \A i \in HeldMemories' : revs'[memories'[i].rev].cand = "approved"
    BY <2>1, <2>5 DEF DeriveInv
  <2>7. Fruitful' \subseteq Fruitful /\ Mentioned' = Mentioned
    BY <2>1, <2>5 DEF Fruitful, Mentioned
  <2>8. \A c \in Consumers : DoneBefore(c)
    BY <2>1, SameDone DEF Current
  <2> QED
    BY <2>6, <2>7, <2>8, DeriveShrinks
<1> QED
  BY <1>1, <1>2

LEMMA DeriveInit == Init => DeriveInv
<1> SUFFICES ASSUME Init PROVE DeriveInv
  OBVIOUS
<1>1. revs = <<>> /\ memories = <<>>
  BY DEF Init
<1>2. DOMAIN revs = {} /\ DOMAIN memories = {}
  BY <1>1
<1>3. HeldMemories = {}
  BY <1>2 DEF HeldMemories
<1>4. Fruitful = {} /\ Mentioned = {}
  BY <1>2, <1>3 DEF Fruitful, Mentioned
<1> QED
  BY <1>3, <1>4 DEF DeriveInv

LEMMA DeriveNext == Inv /\ DeriveInv /\ [Next]_vars => DeriveInv'
<1> SUFFICES ASSUME Inv, DeriveInv, [Next]_vars PROVE DeriveInv'
  OBVIOUS
<1>1. SlackType /\ WorkType /\ ChunkType /\ ErasureInv
  BY InvParts
<1>2. CASE UNCHANGED vars
  BY <1>2, DeriveUnmoved DEF vars
<1>3. CASE Api
  <2>1. CASE \/ \E m \in Messages, t \in Texts, e \in Stamps \ {0} : EditMessage(m, t, e)
             \/ \E m \in Messages : DeleteMessage(m)
             \/ \E s \in Sources : TombstoneSource(s)
             \/ \E v \in Reviewers, n \in DOMAIN revs : ApproveRead(v, n)
    BY <2>1, DeriveUnmoved DEF EditMessage, DeleteMessage, TombstoneSource, ApproveRead, chunkVars
  <2>2. CASE \/ \E n \in DOMAIN revs : RejectCandidate(n)
             \/ \E k \in DOMAIN memories : DeleteMemory(k)
    BY <1>1, <2>2, PeopleDerive
  <2> QED
    BY <1>3, <2>1, <2>2 DEF Api
<1>4. CASE Indexing
  <2>1. ASSUME NEW j \in DOMAIN rag, IndexStart(j) PROVE DeriveInv'
    BY <1>1, <2>1, StartDerives
  <2>2. CASE IndexLoad \/ IndexSources
    BY <2>2, DeriveUnmoved DEF IndexLoad, IndexSources, chunkVars
  <2>3. CASE IndexPublish \/ IndexEmbed \/ IndexProject \/ TombstoneMissing
    BY <1>1, <2>3, IndexDerives
  <2> QED
    BY <1>4, <2>1, <2>2, <2>3 DEF Indexing
<1>5. CASE IndexFail \/ ImportCommit \/ \E b \in Bundles : ImportRead(b)
  BY <1>5, DeriveUnmoved DEF IndexFail, ImportCommit, ImportRead, chunkVars
<1>6. ASSUME NEW s \in Sources, PropagateTombstone(s) PROVE DeriveInv'
  BY <1>1, <1>6, PropagationDerives
<1>7. ASSUME NEW c \in Consumers, Extracting(c) PROVE DeriveInv'
  <2>1. ASSUME NEW n \in DOMAIN revs, ExtractRead(c, n) PROVE DeriveInv'
    BY <1>1, <2>1, ReadDerives
  <2>2. CASE c = "memory" /\ MemoryCommit
    BY <1>1, <2>2, MemoryDerives
  <2>3. CASE c = "graph" /\ GraphCommit
    BY <1>1, <2>3, GraphDerives
  <2> QED
    BY <1>7, <2>1, <2>2, <2>3 DEF Extracting
<1>8. ASSUME NEW c \in Consumers, ExtractFail(c) PROVE DeriveInv'
  BY <1>8, DeriveUnmoved DEF ExtractFail, chunkVars
<1>9. ASSUME NEW v \in Reviewers, ApproveCommit(v) PROVE DeriveInv'
  BY <1>1, <1>9, ApproveDerives
<1> QED
  BY <1>2, <1>3, <1>4, <1>5, <1>6, <1>7, <1>8, <1>9 DEF Next

-----------------------------------------------------------------------------
(* A revision that a withdrawal has erased is not online: the last of them *)
(* is a tombstone, and a chunk whose current revision is one is hidden.    *)
OfflineInv == vector \notin 1 .. erased

LEMMA OfflineNext == Inv /\ IndexInv /\ OfflineInv /\ [Next]_vars => OfflineInv'
<1> SUFFICES ASSUME Inv, IndexInv, OfflineInv, [Next]_vars PROVE OfflineInv'
  OBVIOUS
<1>1. ChunkType
  BY InvParts
<1>2. CASE UNCHANGED <<vector, erased>>
  BY <1>2 DEF OfflineInv
<1>3. CASE vector' = 0
  BY <1>3 DEF OfflineInv
<1>4. CASE IndexProject
  <2>1. UNCHANGED erased /\ (vector' = vector \/ (vector' = indexer.rev /\ IsPublishable))
    BY <1>4 DEF IndexProject
  <2>2. IsPublishable => indexer.rev \notin 1 .. erased
    <3>1. Current \in DOMAIN revs
      BY <1>4 DEF IndexProject, IndexInv, PhaseInv
    <3>2. Current \in Nat /\ erased \in 0 .. Current
      BY <1>1, Lengths DEF ChunkType
    <3>3. erased = Current /\ erased # 0 => chunk.hidden
      BY <3>1 DEF Inv, EmptyInv, IndexInv, TombInv
    <3> QED
      BY <3>2, <3>3 DEF IsPublishable
  <2> QED
    BY <2>1, <2>2 DEF OfflineInv
<1>5. ASSUME NEW j \in DOMAIN rag, IndexStart(j) PROVE OfflineInv'
  BY <1>2, <1>3, <1>5 DEF IndexStart, Prepare, chunkVars
<1>6. ASSUME NEW s \in Sources, PropagateTombstone(s) PROVE OfflineInv'
  BY <1>2, <1>3, <1>6 DEF PropagateTombstone, chunkVars
<1>7. CASE \/ IndexLoad \/ IndexSources \/ IndexPublish \/ IndexEmbed \/ TombstoneMissing
           \/ IndexFail \/ ImportCommit \/ \E b \in Bundles : ImportRead(b)
  BY <1>2, <1>7, Zenon
     DEF IndexLoad, IndexSources, IndexPublish, IndexEmbed, TombstoneMissing, IndexFail,
         ImportCommit, ImportRead, chunkVars
<1>8. CASE \E c \in Consumers : Extracting(c) \/ ExtractFail(c)
  BY <1>2, <1>8, Zenon
     DEF Extracting, ExtractRead, MemoryCommit, GraphCommit, ExtractFail, chunkVars
<1>9. CASE Api \/ \E v \in Reviewers : ApproveCommit(v)
  BY <1>2, <1>9, Zenon
     DEF Api, EditMessage, DeleteMessage, TombstoneSource, ApproveRead, RejectCandidate,
         DeleteMemory, ApproveCommit, chunkVars
<1>10. CASE UNCHANGED vars
  BY <1>2, <1>10 DEF vars
<1> QED
  BY <1>4, <1>5, <1>6, <1>7, <1>8, <1>9, <1>10 DEF Next, Indexing

-----------------------------------------------------------------------------
(* What a run shows when all its work is done.                             *)
FollowInv == Inv /\ IndexInv /\ DeriveInv /\ OfflineInv

LEMMA FollowInit == Init => FollowInv
<1>1. Init => OfflineInv
  BY DEF Init, OfflineInv
<1> QED
  BY <1>1, InitInv, IndexInit, DeriveInit DEF FollowInv

LEMMA FollowNext == FollowInv /\ [Next]_vars => FollowInv'
<1> SUFFICES ASSUME FollowInv, [Next]_vars PROVE FollowInv'
  OBVIOUS
<1>1. /\ Inv /\ IndexInv /\ DeriveInv /\ OfflineInv
      /\ SlackType /\ WorkType /\ ChunkType /\ ErasureInv
  BY InvParts DEF FollowInv
<1>2. Inv'
  BY <1>1, NextInv
<1>3. IndexInv'
  BY <1>1, IndexNext
<1>4. DeriveInv'
  BY <1>1, DeriveNext
<1>5. OfflineInv'
  BY <1>1, OfflineNext
<1> QED
  BY <1>2, <1>3, <1>4, <1>5 DEF FollowInv

(* SourceTombstoneProcessor and the extractors, the index worker and the   *)
(* reviews that race it: the revisions a withdrawal has erased stay empty  *)
(* and offline, and no memory of them lives but a loose one.               *)
THEOREM ErasedStaysErasedAlways == Spec => []ErasedStaysErased
<1>1. FollowInv => ErasedStaysErased
  <2> SUFFICES ASSUME FollowInv PROVE ErasedStaysErased
    OBVIOUS
  <2>1. \A i \in 1 .. erased : revs[i].content = {} /\ ~revs[i].filled /\ vector # i
    BY DEF FollowInv, Inv, EmptyInv, OfflineInv
  <2>2. ASSUME NEW k \in DOMAIN memories, memories[k].rev <= erased, ~memories[k].loose
        PROVE  ~memories[k].live
    <3>1. memories[k].rev \in Nat /\ erased \in Nat
      <4>1. memories \in Seq(Memory) /\ revs \in Seq(Revision) /\ erased \in 0 .. Len(revs)
        BY InvParts DEF FollowInv, ChunkType, Current
      <4>2. memories[k] \in Memory
        BY <2>2, <4>1, LenProperties, ElementOfSeq
      <4>3. Len(revs) \in Nat
        BY <4>1, LenProperties
      <4> QED
        BY <4>1, <4>2, <4>3 DEF Memory
    <3> QED
      BY <2>2, <3>1 DEF FollowInv, Inv, MemoryInv
  <2> QED
    BY <2>1, <2>2 DEF ErasedStaysErased
<1> QED
  BY <1>1, FollowInit, FollowNext, PTL DEF Spec

(* When every job has ended well no job is pending and the index rests; a  *)
(* chunk without messages is buried, unless they went with a withdrawal or  *)
(* without an event.                                                       *)
LEMMA AtRest ==
  ASSUME FollowInv, Settled
  PROVE  /\ Pending = {} /\ indexer.pc = "idle" /\ ChunkType
         /\ Current = Len(revs) /\ (revs # <<>> <=> Current \in DOMAIN revs)
         /\ \A i \in DOMAIN revs : revs[i] \in Revision
         /\ NothingWithdrawn /\ "change" \notin unheard /\ Content = {}
              /\ Current \in DOMAIN revs => revs[Current].tomb /\ chunk.hidden
<1>1. Pending = {}
  BY DEF Settled, Pending
<1>2. indexer.pc = "idle"
  BY DEF FollowInv, Inv, WorkInv, Settled
<1>3. ChunkType
  BY InvParts DEF FollowInv
<1> QED
  BY <1>1, <1>2, <1>3, Lengths DEF FollowInv, IndexInv, GoneInv, TombInv

(* So an extractor has derived from the current revision.                  *)
LEMMA ExtractorsAreDone ==
  ASSUME FollowInv, Settled, "change" \notin unheard, NothingWithdrawn \/ Content # {},
         Current \in DOMAIN revs, NEW c \in Consumers
  PROVE  IsDone(c)
<1>1. revs[Current].ready[c] \in {"none", "waiting", "done"}
  BY AtRest DEF Revision
<1>2. revs[Current].ready[c] # "waiting"
  BY DEF Settled, Quiet
<1>3. revs[Current].ready[c] # "none"
  <2>1. CASE Content # {}
    BY <2>1, AtRest DEF FollowInv, IndexInv, AnnounceInv
  <2>2. CASE Content = {}
    BY <2>2, AtRest DEF FollowInv, IndexInv, TombInv, TombRev
  <2> QED
    BY <2>1, <2>2
<1> QED
  BY <1>1, <1>2, <1>3 DEF IsDone

(* The rag-index worker, with every edit, deletion, import, failed attempt *)
(* and retry it may meet in any order: when all its jobs have ended well,  *)
(* and no import has dropped its event, search serves exactly what the     *)
(* messages say, and nothing when none is.                                 *)
THEOREM IndexFollowsMessagesAlways == Spec => []IndexFollowsMessages
<1>1. FollowInv => IndexFollowsMessages
  <2> SUFFICES ASSUME FollowInv, Settled, NothingWithdrawn, "change" \notin unheard
               PROVE  /\ IsServed <=> Content # {}
                      /\ IsServed => /\ chunk.text = Content /\ vector = Current
                                     /\ revs[Current].content = Content
                                     /\ revs[Current].embedded
    BY DEF IndexFollowsMessages
  <2>1. CASE Content # {}
    BY <2>1, AtRest DEF FollowInv, IndexInv, SearchInv, Shows, IsServed
  <2>2. CASE Content = {}
    BY <2>2, AtRest DEF IsServed
  <2> QED
    BY <2>1, <2>2
<1> QED
  BY <1>1, FollowInit, FollowNext, PTL DEF Spec

(* The index worker and deletions: once its jobs have ended well, and no   *)
(* import has dropped the event of a deletion, no revision of the chunk, old *)
(* or current, holds a line of a deleted message.                          *)
THEOREM DeletedTextIsErasedAlways == Spec => []DeletedTextIsErased
<1>1. FollowInv => DeletedTextIsErased
  <2> SUFFICES ASSUME FollowInv, Settled, "deletion" \notin unheard, NEW i \in DOMAIN revs, NEW l \in revs[i].content
               PROVE  message[l[1]].state # "deleted"
    BY DEF DeletedTextIsErased
  <2>1. ~Holds(revs[i].content, Deleted)
    BY AtRest DEF FollowInv, IndexInv, ForgetInv, Erasures
  <2>2. l[1] \in Messages
    BY AtRest DEF Revision, Line
  <2> QED
    BY <2>1, <2>2 DEF Holds, Deleted
<1> QED
  BY <1>1, FollowInit, FollowNext, PTL DEF Spec

(* The extractor of memories and the reviews that race it: with all work   *)
(* done and no event dropped, a memory that is not loose belongs to the    *)
(* current revision.                                                       *)
THEOREM MemoryFollowsTextAlways == Spec => []MemoryFollowsText
<1>1. FollowInv => MemoryFollowsText
  <2> SUFFICES ASSUME FollowInv, Settled, "change" \notin unheard,
                      NothingWithdrawn \/ Content # {},
                      NEW k \in DOMAIN memories, memories[k].live /\ ~memories[k].loose
               PROVE  memories[k].rev = Current
    BY DEF MemoryFollowsText
  <2>1. memories[k].rev \in DOMAIN revs /\ memories[k].rev \in Fruitful
    BY DEF FollowInv, Inv, MemoryInv, Fruitful, HeldMemories
  <2>2. Current \in DOMAIN revs
    BY <2>1, AtRest
  <2>3. "memory" \in Consumers
    BY <2>1 DEF FollowInv, DeriveInv
  <2> QED
    BY <2>1, <2>2, <2>3, ExtractorsAreDone DEF FollowInv, DeriveInv
<1> QED
  BY <1>1, FollowInit, FollowNext, PTL DEF Spec

(* The extractor of the graph: with all work done and no event dropped, an *)
(* open mention belongs to the current revision of a chunk that is served. *)
THEOREM MentionsFollowTextAlways == Spec => []MentionsFollowText
<1>1. FollowInv => MentionsFollowText
  <2> SUFFICES ASSUME FollowInv, Settled, NothingWithdrawn, "change" \notin unheard,
                      NEW i \in DOMAIN revs, revs[i].mention = "open"
               PROVE  i = Current /\ IsServed
    BY DEF MentionsFollowText
  <2>1. i \in Mentioned
    BY DEF Mentioned
  <2>2. Current \in DOMAIN revs /\ revs # <<>>
    BY AtRest
  <2>3. "graph" \in Consumers
    BY <2>1 DEF FollowInv, DeriveInv
  <2>4. i = Current
    BY <2>1, <2>2, <2>3, ExtractorsAreDone DEF FollowInv, DeriveInv
  <2>5. Content # {}
    BY <2>2, <2>4, AtRest DEF FollowInv, IndexInv, TombInv, TombRev
  <2>6. Shows
    BY <2>5, AtRest DEF FollowInv, IndexInv, SearchInv
  <2> QED
    BY <2>2, <2>4, <2>6 DEF Shows, IsServed
<1> QED
  BY <1>1, FollowInit, FollowNext, PTL DEF Spec
=============================================================================
