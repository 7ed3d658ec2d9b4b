---------------------------- MODULE CardSmsIngest ----------------------------
(***************************************************************************)
(* The endpoint a phone posts card messages to.  The phone may post one    *)
(* message again, at once or days later, on several connections; the       *)
(* server decides from a key, a time or only its own clock whether it has  *)
(* the message already.                                                    *)
(*                                                                         *)
(* A post is a request of one device.  Its lookups, its transaction and    *)
(* its answer are steps of their own: other requests run between them.     *)
(***************************************************************************)
EXTENDS Integers, FiniteSets

CONSTANTS
  Posts,              \* requests
  Messages,           \* what a post may say: a text and, of itself, a key or a time
  Dated,              \* texts that carry the date and minute of the payment
  None,               \* no row, no text
  DedupeWindow,       \* CARD_SMS_DEDUPE_WINDOW_MS
  FingerprintWindow,  \* CARD_SMS_FINGERPRINT_WINDOW_MS
  MaxTime,            \* bound: the server's clock
  MaxFaults           \* bound: requests cut off and texts not kept

Time == 0 .. MaxTime
Texts == {m.text : m \in Messages}
Hints == {m.hint : m \in Messages}

ASSUME IngestAssumption ==
  /\ \A m \in Messages : m.hint \in [kind: {"key", "iso", "tag", "none"}, value: Nat]
  /\ None \notin Posts
  /\ DedupeWindow \in Nat \ {0} /\ FingerprintWindow \in Nat /\ MaxTime \in Nat
  /\ MaxFaults \in Nat
  /\ DedupeWindow <= FingerprintWindow

VARIABLES
  now,      \* the server's clock
  pc,       \* where each request is
  sent,     \* text, hint and ingestedAt of each request
  stored,   \* posts with a row in card_sms_events and its outbox row
  match,    \* the row a request is absorbed by; None after a lost race
  kept,     \* posts whose text is in card_sms_ingest_suppressions
  unkept,   \* posts for which that insert failed
  answer,   \* the eventId each post was answered
  saw       \* history: the rows there were when each request began

vars == <<now, pc, sent, stored, match, kept, unkept, answer, saw>>

NoKey == [by |-> "nobody", text |-> None, tag |-> 0]
NoHint == [kind |-> "none", value |-> 0]

Init ==
  /\ now = 0
  /\ pc = [r \in Posts |-> "unsent"]
  /\ sent = [r \in Posts |-> [text |-> None, hint |-> NoHint, at |-> 0]]
  /\ stored = {} /\ kept = {} /\ unkept = {}
  /\ match = [r \in Posts |-> None]
  /\ answer = [r \in Posts |-> NoKey]
  /\ saw = [r \in Posts |-> {}]

Goto(r, step) == pc' = [pc EXCEPT ![r] = step]

Tick == /\ now < MaxTime /\ now' = now + 1
        /\ UNCHANGED <<pc, sent, stored, match, kept, unkept, answer, saw>>

(* resolveCardSmsIdempotency: the caller's key, else a hash over the text  *)
(* and the caller's time, else over the text and the window of the clock.  *)
WindowStart(t) == t - (t % DedupeWindow)
Said(r) == sent[r].hint.kind
Key(r) ==
  LET p == sent[r] IN
  IF Said(r) = "key" THEN [by |-> "client", text |-> None, tag |-> p.hint.value]
  ELSE IF Said(r) = "none" THEN [by |-> "window", text |-> p.text, tag |-> WindowStart(p.at)]
  ELSE [by |-> "time", text |-> p.text, tag |-> p.hint.value]
ReceivedAt(r) == IF Said(r) = "iso" THEN sent[r].hint.value ELSE sent[r].at
Window(r) == IF sent[r].text \in Dated THEN FingerprintWindow ELSE DedupeWindow

Post(r, m) ==
  /\ pc[r] = "unsent"
  /\ sent' = [sent EXCEPT ![r] = [text |-> m.text, hint |-> m.hint, at |-> now]]
  /\ saw' = [saw EXCEPT ![r] = stored]
  /\ Goto(r, "exact")
  /\ UNCHANGED <<now, stored, match, kept, unkept, answer>>

(* findDuplicate: a row with this key, ...                                 *)
Absorb(r, q) == match' = [match EXCEPT ![r] = q] /\ Goto(r, "absorb")
FindExactOnly(r) ==   \* mutant: texts are compared whatever time the caller gave
  /\ pc[r] = "exact"
  /\ \/ \E q \in stored : Key(q) = Key(r) /\ Absorb(r, q)
     \/ /\ \A q \in stored : Key(q) # Key(r)
        /\ Goto(r, "near") /\ UNCHANGED match
  /\ UNCHANGED <<now, sent, stored, kept, unkept, answer, saw>>
FindExact(r) ==
  /\ pc[r] = "exact"
  /\ \/ \E q \in stored : Key(q) = Key(r) /\ Absorb(r, q)
     \/ /\ \A q \in stored : Key(q) # Key(r)
        /\ Goto(r, IF Said(r) = "none" THEN "near" ELSE "insert")
        /\ UNCHANGED match
  /\ UNCHANGED <<now, sent, stored, kept, unkept, answer, saw>>

(* ... or, if the caller gave no time, the latest recent row of the text.  *)
NearSameWindow(r) == {q \in stored : /\ sent[q].text = sent[r].text   \* mutant: this window only
                                    /\ ReceivedAt(q) >= WindowStart(sent[r].at)}
Near(r) == {q \in stored : /\ sent[q].text = sent[r].text
                         /\ ReceivedAt(q) > sent[r].at - Window(r)}
FindNear(r) ==
  /\ pc[r] = "near"
  /\ \/ \E q \in Near(r) : /\ \A p \in Near(r) : ReceivedAt(p) <= ReceivedAt(q)
                           /\ Absorb(r, q)
     \/ Near(r) = {} /\ Goto(r, "insert") /\ UNCHANGED match
  /\ UNCHANGED <<now, sent, stored, kept, unkept, answer, saw>>

(* Source, revision, event and outbox row in one transaction, rolled back  *)
(* when UNIQUE(device_id, event_id) is hit.                                *)
InsertOrAnswer(r) ==   \* mutant: the loser of the race answers at once
  /\ pc[r] = "insert"
  /\ IF \E q \in stored : Key(q) = Key(r)
     THEN Goto(r, "answered") /\ answer' = [answer EXCEPT ![r] = Key(r)] /\ UNCHANGED stored
     ELSE Goto(r, "object") /\ stored' = stored \cup {r} /\ UNCHANGED answer
  /\ UNCHANGED <<now, sent, match, kept, unkept, saw>>
Insert(r) ==
  /\ pc[r] = "insert"
  /\ IF \E q \in stored : Key(q) = Key(r)
     THEN Goto(r, "absorb") /\ UNCHANGED stored
     ELSE Goto(r, "object") /\ stored' = stored \cup {r}
  /\ UNCHANGED <<now, sent, match, kept, unkept, answer, saw>>

(* The raw text goes to the object storage, whose failure is only logged. *)
PutObject(r) ==
  /\ pc[r] = "object"
  /\ answer' = [answer EXCEPT ![r] = Key(r)]
  /\ Goto(r, "answered")
  /\ UNCHANGED <<now, sent, stored, match, kept, unkept, saw>>

Faults == {r \in Posts : pc[r] = "lost"} \cup unkept
MayFail == Cardinality(Faults) < MaxFaults

(* The text of an absorbed post is kept, or a failure to keep it is logged. *)
SuppressAsOwn(r) ==   \* mutant: an absorbed post is told the key it would have had
  /\ pc[r] = "absorb"
  /\ kept' = kept \cup {r}
  /\ answer' = [answer EXCEPT ![r] = Key(r)]
  /\ match' = [match EXCEPT ![r] = None]
  /\ Goto(r, "answered")
  /\ UNCHANGED <<now, sent, stored, unkept, saw>>
Suppress(r) ==
  /\ pc[r] = "absorb"
  /\ \/ kept' = kept \cup {r} /\ UNCHANGED unkept
     \/ MayFail /\ unkept' = unkept \cup {r} /\ UNCHANGED kept
  /\ answer' = [answer EXCEPT ![r] = IF match[r] = None THEN Key(r) ELSE Key(match[r])]
  /\ match' = [match EXCEPT ![r] = None]
  /\ Goto(r, "answered")
  /\ UNCHANGED <<now, sent, stored, saw>>

(* An error, a crash of the server, a connection the phone gave up.        *)
Lose(r) ==
  /\ pc[r] \notin {"unsent", "answered", "lost"} /\ MayFail
  /\ match' = [match EXCEPT ![r] = None]
  /\ Goto(r, "lost")
  /\ UNCHANGED <<now, sent, stored, kept, unkept, answer, saw>>

Ingest(r) ==
  \/ \E m \in Messages : Post(r, m)
  \/ FindExact(r) \/ FindNear(r) \/ Insert(r) \/ PutObject(r) \/ Suppress(r) \/ Lose(r)
Next == Tick \/ \E r \in Posts : Ingest(r)

Spec == Init /\ [][Next]_vars

-----------------------------------------------------------------------------
Tags == {h.value : h \in Hints}
Keys ==
  [by: {"client"}, text: {None}, tag: Tags] \cup [by: {"time"}, text: Texts, tag: Tags]
  \cup [by: {"window"}, text: Texts, tag: {WindowStart(t) : t \in Time}]

TypeOK ==
  /\ now \in Time
  /\ sent \in [Posts -> [text: Texts \cup {None}, hint: Hints \cup {NoHint}, at: Time]]
  /\ pc \in [Posts -> {"unsent", "exact", "near", "insert", "object", "absorb",
                       "answered", "lost"}]
  /\ stored \subseteq Posts
  /\ kept \subseteq Posts \ stored /\ unkept \subseteq Posts \ stored
  /\ match \in [Posts -> Posts \cup {None}]
  /\ answer \in [Posts -> Keys \cup {NoKey}]
  /\ saw \in [Posts -> SUBSET Posts]

(* Posts the caller told apart, by a key or a time, stay apart, whatever   *)
(* else is stored or raced: none is answered with the key of another.      *)
CallerKeysAreKept ==
  \A r \in Posts : pc[r] = "answered" /\ Said(r) # "none" => answer[r] = Key(r)

(* A text posted again, with no key and no time, after its row was stored  *)
(* and within its window of the clock, makes no second row.                *)
RetriesAreFolded ==
  \A q, r \in stored :
    /\ Said(q) = "none" /\ Said(r) = "none" /\ sent[q].text = sent[r].text
    /\ q \in saw[r]
    => sent[r].at - sent[q].at >= Window(r)

(* A post that was answered left its text: in its event, in a suppression, *)
(* or in neither because that very insert failed.                          *)
NothingVanishes ==
  \A r \in Posts : pc[r] = "answered" => r \in stored \cup kept \cup unkept

(* The requests, however they meet, implement an inbox of one row per key, *)
(* and the key a caller is told is the key of a row (manual-entry.service  *)
(* looks the row up by it).                                                *)
Box == [r \in Posts |-> IF r \in stored THEN Key(r) ELSE NoKey]
Promise == INSTANCE Inbox WITH box <- Box
ImplementsInbox == Promise!Spec
=============================================================================
