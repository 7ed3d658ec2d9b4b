------------------------ MODULE CardSmsIngestProofs -------------------------
(***************************************************************************)
(* What CardSmsIngest promises, for any posts, messages, windows and       *)
(* number of faults.  The inductive invariant says of each post what its   *)
(* position in the protocol implies; a step of one post leaves what is     *)
(* said of the others alone, because rows are only added and a post is     *)
(* never sent twice.                                                       *)
(***************************************************************************)
EXTENDS CardSmsIngest, TLAPS

(* What is known of a post from where it is. *)
Placed(r) ==
  /\ pc[r] # "unsent" => sent[r].text \in Texts /\ sent[r].hint \in Hints
  /\ r \in stored => pc[r] \in {"object", "answered", "lost"}
  /\ pc[r] = "object" => r \in stored
  /\ r \in kept \cup unkept => pc[r] = "answered"
  /\ pc[r] = "near" => Said(r) = "none"
  /\ pc[r] # "absorb" => match[r] = None
  /\ saw[r] \subseteq stored

(* A post about to be absorbed has a row to be absorbed by: the one it     *)
(* found, or the one that won the race for its key.                        *)
Absorbable(r) ==
  pc[r] = "absorb" =>
    IF match[r] = None THEN \E q \in stored : Key(q) = Key(r)
    ELSE match[r] \in stored /\ (Said(r) = "none" \/ Key(match[r]) = Key(r))

(* A post past its lookup follows the rows it saw by its window.           *)
Folded(r) ==
  (pc[r] = "insert" \/ r \in stored) /\ Said(r) = "none" =>
    \A q \in saw[r] : Said(q) = "none" /\ sent[q].text = sent[r].text
      => sent[r].at - sent[q].at >= Window(r)

(* Only an answered post has an answer, and it left its text.              *)
Answered(r) ==
  IF pc[r] = "answered"
  THEN (Said(r) # "none" => answer[r] = Key(r)) /\ r \in stored \cup kept \cup unkept
  ELSE answer[r] = NoKey

Sound(r) == Placed(r) /\ Absorbable(r) /\ Folded(r) /\ Answered(r)
IInv == TypeOK /\ \A r \in Posts : Sound(r)

-----------------------------------------------------------------------------
(* What a post says, once sent, has one of the four kinds, and its key is  *)
(* a key.                                                                  *)
LEMMA KindOfHint ==
  ASSUME NEW r \in Posts, sent[r].hint \in Hints
  PROVE  Said(r) \in {"key", "iso", "tag", "none"} /\ sent[r].hint.value \in Tags
         /\ sent[r].hint.value \in Nat
<1>1. PICK m \in Messages : sent[r].hint = m.hint
  BY DEF Hints
<1>2. m.hint \in [kind: {"key", "iso", "tag", "none"}, value: Nat]
  BY IngestAssumption
<1> QED BY <1>1, <1>2 DEF Said, Tags, Hints

LEMMA KeyOfPost ==
  ASSUME TypeOK, NEW r \in Posts, Placed(r), pc[r] # "unsent"
  PROVE  Key(r) \in Keys /\ Key(r) # NoKey
<1>1. sent[r].text \in Texts /\ sent[r].hint \in Hints
  BY DEF Placed
<1>2. Said(r) \in {"key", "iso", "tag", "none"} /\ sent[r].hint.value \in Tags
  BY <1>1, KindOfHint
<1>3. sent[r].at \in Time
  BY DEF TypeOK
<1>4. CASE Said(r) = "key"
  BY <1>2, <1>4 DEF Key, Keys, NoKey
<1>5. CASE Said(r) \in {"iso", "tag"}
  BY <1>1, <1>2, <1>5 DEF Key, Keys, NoKey
<1>6. CASE Said(r) = "none"
  BY <1>1, <1>3, <1>6 DEF Key, Keys, NoKey
<1> QED BY <1>2, <1>4, <1>5, <1>6

(* What is derived from a post depends on what it sent, and no more.       *)
LEMMA SentDecides ==
  ASSUME NEW q, sent'[q] = sent[q]
  PROVE  /\ Key(q)' = Key(q) /\ Said(q)' = Said(q)
         /\ ReceivedAt(q)' = ReceivedAt(q) /\ Window(q)' = Window(q)
BY DEF Key, Said, ReceivedAt, Window

(* A step of another post leaves what is known of a post alone.            *)
LEMMA OthersStaySound ==
  ASSUME TypeOK, NEW q \in Posts, Sound(q),
         pc'[q] = pc[q], sent'[q] = sent[q], match'[q] = match[q],
         answer'[q] = answer[q], saw'[q] = saw[q],
         stored \subseteq stored', q \in stored' <=> q \in stored,
         q \in kept' <=> q \in kept, q \in unkept' <=> q \in unkept,
         \A p \in stored : sent'[p] = sent[p]
  PROVE  Sound(q)'
<1>1. Key(q)' = Key(q) /\ Said(q)' = Said(q) /\ Window(q)' = Window(q)
  BY SentDecides
<1>2. \A p \in stored : Key(p)' = Key(p) /\ Said(p)' = Said(p)
  BY SentDecides
<1>3. Placed(q)'
  BY <1>1 DEF Sound, Placed
<1>4. Absorbable(q)'
  <2>1. CASE match[q] = None
    BY <1>1, <1>2, <2>1 DEF Sound, Absorbable
  <2>2. CASE match[q] # None
    BY <1>1, <1>2, <2>2 DEF Sound, Absorbable
  <2> QED BY <2>1, <2>2
<1>5. Folded(q)'
  <2>1. saw[q] \subseteq stored
    BY DEF Sound, Placed
  <2> QED BY <1>1, <1>2, <2>1 DEF Sound, Folded
<1>6. Answered(q)'
  BY <1>1 DEF Sound, Answered
<1> QED BY <1>3, <1>4, <1>5, <1>6 DEF Sound

-----------------------------------------------------------------------------
LEMMA InitSound == Init => IInv
BY IngestAssumption DEF Init, IInv, TypeOK, Sound, Placed, Absorbable, Folded,
   Answered, Time, NoHint

LEMMA PostSound ==
  ASSUME IInv, NEW r \in Posts, NEW m \in Messages, Post(r, m)
  PROVE  IInv'
<1>1. r \notin stored /\ r \notin kept \cup unkept /\ answer[r] = NoKey /\ match[r] = None
  BY DEF IInv, Sound, Placed, Answered, Post
<1>2. m.text \in Texts /\ m.hint \in Hints
  BY DEF Texts, Hints
<1>3. TypeOK'
  BY <1>2 DEF IInv, TypeOK, Post, Goto
<1>4. Sound(r)'
  BY <1>1, <1>2 DEF IInv, TypeOK, Post, Goto, Sound, Placed, Absorbable, Folded, Answered
<1>5. ASSUME NEW q \in Posts, q # r PROVE Sound(q)'
  BY <1>1, <1>5, OthersStaySound DEF IInv, TypeOK, Post, Goto
<1> QED BY <1>3, <1>4, <1>5 DEF IInv

LEMMA FindExactSound ==
  ASSUME IInv, NEW r \in Posts, FindExact(r)
  PROVE  IInv'
<1>1. TypeOK'
  BY DEF IInv, TypeOK, FindExact, Absorb, Goto
<1>2. /\ Key(r)' = Key(r) /\ Said(r)' = Said(r) /\ Window(r)' = Window(r)
      /\ \A p \in stored : Key(p)' = Key(p) /\ Said(p)' = Said(p)
  BY SentDecides DEF FindExact
<1>3. r \notin stored /\ r \notin kept \cup unkept /\ answer[r] = NoKey /\ match[r] = None
  BY DEF IInv, Sound, Placed, Answered, FindExact
<1>4. Said(r) \in {"key", "iso", "tag", "none"}
  BY KindOfHint DEF IInv, Sound, Placed, FindExact
<1>5. Sound(r)'
  <2>1. CASE \E q \in stored : Key(q) = Key(r) /\ Absorb(r, q)
    <3>1. PICK q \in stored : Key(q) = Key(r) /\ Absorb(r, q)
      BY <2>1
    <3>2. pc' = [pc EXCEPT ![r] = "absorb"] /\ match' = [match EXCEPT ![r] = q]
      BY <3>1 DEF Absorb, Goto
    <3>3. q # None /\ q \in Posts
      BY IngestAssumption DEF IInv, TypeOK
    <3>4. Placed(r)'
      BY <1>2, <1>3, <3>2 DEF IInv, TypeOK, FindExact, Sound, Placed
    <3>5. Absorbable(r)'
      BY <1>2, <3>1, <3>2, <3>3 DEF IInv, TypeOK, FindExact, Absorbable
    <3>6. Folded(r)' /\ Answered(r)'
      BY <1>3, <3>2 DEF IInv, TypeOK, FindExact, Folded, Answered
    <3> QED BY <3>4, <3>5, <3>6 DEF Sound
  <2>2. CASE /\ Goto(r, IF Said(r) = "none" THEN "near" ELSE "insert")
             /\ UNCHANGED match
    BY <1>2, <1>3, <2>2 DEF IInv, TypeOK, FindExact, Goto, Sound, Placed, Absorbable, Folded,
       Answered
  <2> QED BY <2>1, <2>2 DEF FindExact
<1>6. ASSUME NEW q \in Posts, q # r PROVE Sound(q)'
  BY <1>6, OthersStaySound DEF IInv, TypeOK, FindExact, Absorb, Goto
<1> QED BY <1>1, <1>5, <1>6 DEF IInv

LEMMA FindNearSound ==
  ASSUME IInv, NEW r \in Posts, FindNear(r)
  PROVE  IInv'
<1>1. TypeOK'
  <2>1. \A q \in Near(r) : q \in Posts
    BY DEF IInv, TypeOK, Near
  <2> QED BY <2>1 DEF IInv, TypeOK, FindNear, Absorb, Goto
<1>2. /\ Key(r)' = Key(r) /\ Said(r)' = Said(r) /\ Window(r)' = Window(r)
      /\ \A p \in stored : Key(p)' = Key(p) /\ Said(p)' = Said(p)
  BY SentDecides DEF FindNear
<1>3. /\ r \notin stored /\ r \notin kept \cup unkept /\ answer[r] = NoKey
      /\ match[r] = None /\ Said(r) = "none" /\ saw[r] \subseteq stored
  BY DEF IInv, Sound, Placed, Answered, FindNear
<1>4. Sound(r)'
  <2>1. CASE \E q \in Near(r) : Absorb(r, q)
    <3>1. PICK q \in stored : Absorb(r, q)
      BY <2>1 DEF Near
    <3>2. pc' = [pc EXCEPT ![r] = "absorb"] /\ match' = [match EXCEPT ![r] = q]
      BY <3>1 DEF Absorb, Goto
    <3>3. q # None /\ q \in Posts
      BY IngestAssumption DEF IInv, TypeOK
    <3>4. Placed(r)'
      BY <1>2, <1>3, <3>2 DEF IInv, TypeOK, FindNear, Sound, Placed
    <3>5. Absorbable(r)'
      BY <1>2, <1>3, <3>2, <3>3 DEF IInv, TypeOK, FindNear, Absorbable
    <3>6. Folded(r)' /\ Answered(r)'
      BY <1>3, <3>2 DEF IInv, TypeOK, FindNear, Folded, Answered
    <3> QED BY <3>4, <3>5, <3>6 DEF Sound
  <2>2. CASE Near(r) = {} /\ Goto(r, "insert") /\ UNCHANGED match
    <3>1. Placed(r)' /\ Absorbable(r)' /\ Answered(r)'
      BY <1>2, <1>3, <2>2 DEF IInv, TypeOK, FindNear, Goto, Sound, Placed, Absorbable, Answered
    <3>2. ASSUME NEW q \in saw[r], Said(q) = "none", sent[q].text = sent[r].text
          PROVE  sent[r].at - sent[q].at >= Window(r)
      <4>1. q \in stored /\ q \in Posts
        BY <1>3 DEF IInv, TypeOK
      <4>2. ReceivedAt(q) = sent[q].at
        BY <3>2 DEF ReceivedAt
      <4>3. ~(sent[q].at > sent[r].at - Window(r))
        BY <2>2, <3>2, <4>1, <4>2 DEF Near
      <4>4. sent[q].at \in Int /\ sent[r].at \in Int
        BY <4>1, IngestAssumption DEF IInv, TypeOK, Time
      <4>5. Window(r) \in Int
        BY IngestAssumption DEF Window
      <4> QED BY <4>3, <4>4, <4>5
    <3>3. Folded(r)'
      BY <1>2, <1>3, <3>2 DEF FindNear, Folded
    <3> QED BY <3>1, <3>3 DEF Sound
  <2> QED BY <2>1, <2>2 DEF FindNear
<1>5. ASSUME NEW q \in Posts, q # r PROVE Sound(q)'
  BY <1>5, OthersStaySound DEF IInv, TypeOK, FindNear, Absorb, Goto
<1> QED BY <1>1, <1>4, <1>5 DEF IInv

LEMMA InsertSound ==
  ASSUME IInv, NEW r \in Posts, Insert(r)
  PROVE  IInv'
<1>1. /\ r \notin stored /\ r \notin kept \cup unkept /\ answer[r] = NoKey
      /\ match[r] = None /\ saw[r] \subseteq stored
  BY DEF IInv, Sound, Placed, Answered, Insert
<1>2. TypeOK'
  BY <1>1 DEF IInv, TypeOK, Insert, Goto
<1>3. /\ Key(r)' = Key(r) /\ Said(r)' = Said(r) /\ Window(r)' = Window(r)
      /\ \A p \in stored : Key(p)' = Key(p) /\ Said(p)' = Said(p)
  BY SentDecides DEF Insert
<1>4. Sound(r)'
  <2>1. Placed(r)' /\ Answered(r)'
    BY <1>1, <1>3 DEF IInv, TypeOK, Insert, Goto, Sound, Placed, Answered
  <2>2. Absorbable(r)'
    BY <1>1, <1>3 DEF IInv, TypeOK, Insert, Goto, Absorbable
  <2>3. Folded(r)'
    <3>1. Said(r) = "none" =>
            \A q \in saw[r] : Said(q) = "none" /\ sent[q].text = sent[r].text
              => sent[r].at - sent[q].at >= Window(r)
      BY DEF IInv, Insert, Sound, Folded
    <3>2. sent' = sent /\ saw' = saw
      BY DEF Insert
    <3> QED BY <1>1, <1>3, <3>1, <3>2 DEF Folded
  <2> QED BY <2>1, <2>2, <2>3 DEF Sound
<1>5. ASSUME NEW q \in Posts, q # r PROVE Sound(q)'
  BY <1>5, OthersStaySound DEF IInv, TypeOK, Insert, Goto
<1> QED BY <1>2, <1>4, <1>5 DEF IInv

LEMMA PutObjectSound ==
  ASSUME IInv, NEW r \in Posts, PutObject(r)
  PROVE  IInv'
<1>1. r \in stored /\ r \notin kept \cup unkept /\ match[r] = None
  BY DEF IInv, Sound, Placed, PutObject
<1>2. Key(r) \in Keys
  BY KeyOfPost DEF IInv, Sound, PutObject
<1>3. TypeOK'
  BY <1>2 DEF IInv, TypeOK, PutObject, Goto
<1>4. /\ Key(r)' = Key(r) /\ Said(r)' = Said(r) /\ Window(r)' = Window(r)
      /\ \A p \in stored : Said(p)' = Said(p)
  BY SentDecides DEF PutObject
<1>5. Sound(r)'
  BY <1>1, <1>4 DEF IInv, TypeOK, PutObject, Goto, Sound, Placed, Absorbable, Folded, Answered
<1>6. ASSUME NEW q \in Posts, q # r PROVE Sound(q)'
  BY <1>6, OthersStaySound DEF IInv, TypeOK, PutObject, Goto
<1> QED BY <1>3, <1>5, <1>6 DEF IInv

(* The key an absorbed post is told is the key of a row. *)
LEMMA ToldKey ==
  ASSUME IInv, NEW r \in Posts, pc[r] = "absorb"
  PROVE  LET told == IF match[r] = None THEN Key(r) ELSE Key(match[r])
         IN /\ \E q \in stored : told = Key(q)
            /\ told \in Keys
            /\ Said(r) # "none" => told = Key(r)
<1>1. Key(r) \in Keys
  BY KeyOfPost DEF IInv, Sound
<1>2. CASE match[r] = None
  BY <1>1, <1>2 DEF IInv, Sound, Absorbable
<1>3. CASE match[r] # None
  <2>1. match[r] \in stored /\ match[r] \in Posts
    BY <1>3 DEF IInv, TypeOK, Sound, Absorbable
  <2>2. pc[match[r]] # "unsent"
    BY <2>1 DEF IInv, Sound, Placed
  <2>3. Key(match[r]) \in Keys
    BY <2>1, <2>2, KeyOfPost DEF IInv, Sound
  <2> QED BY <1>3, <2>1, <2>3 DEF IInv, Sound, Absorbable
<1> QED BY <1>2, <1>3

LEMMA SuppressSound ==
  ASSUME IInv, NEW r \in Posts, Suppress(r)
  PROVE  IInv'
<1>1. r \notin stored /\ saw[r] \subseteq stored
  BY DEF IInv, Sound, Placed, Suppress
<1> DEFINE told == IF match[r] = None THEN Key(r) ELSE Key(match[r])
<1>2. told \in Keys /\ (Said(r) # "none" => told = Key(r))
  BY ToldKey DEF Suppress
<1>3. answer' = [answer EXCEPT ![r] = told]
  BY DEF Suppress
<1> HIDE DEF told
<1>4. TypeOK'
  BY <1>1, <1>2, <1>3 DEF IInv, TypeOK, Suppress, Goto
<1>5. /\ Key(r)' = Key(r) /\ Said(r)' = Said(r) /\ Window(r)' = Window(r)
      /\ \A p \in stored : Said(p)' = Said(p)
  BY SentDecides DEF Suppress
<1>6. Sound(r)'
  <2>1. Placed(r)'
    BY <1>1, <1>5 DEF IInv, TypeOK, Suppress, Goto, Sound, Placed
  <2>2. Absorbable(r)' /\ Folded(r)'
    BY <1>1 DEF IInv, TypeOK, Suppress, Goto, Absorbable, Folded
  <2>3. Answered(r)'
    BY <1>2, <1>3, <1>5 DEF IInv, TypeOK, Suppress, Goto, Answered
  <2> QED BY <2>1, <2>2, <2>3 DEF Sound
<1>7. ASSUME NEW q \in Posts, q # r PROVE Sound(q)'
  BY <1>3, <1>7, OthersStaySound DEF IInv, TypeOK, Suppress, Goto
<1> QED BY <1>4, <1>6, <1>7 DEF IInv

LEMMA LoseSound ==
  ASSUME IInv, NEW r \in Posts, Lose(r)
  PROVE  IInv'
<1>1. TypeOK'
  BY DEF IInv, TypeOK, Lose, Goto
<1>2. /\ Key(r)' = Key(r) /\ Said(r)' = Said(r) /\ Window(r)' = Window(r)
      /\ \A p \in stored : Said(p)' = Said(p)
  BY SentDecides DEF Lose
<1>3. Sound(r)'
  BY <1>2 DEF IInv, TypeOK, Lose, Goto, Sound, Placed, Absorbable, Folded, Answered
<1>4. ASSUME NEW q \in Posts, q # r PROVE Sound(q)'
  BY <1>4, OthersStaySound DEF IInv, TypeOK, Lose, Goto
<1> QED BY <1>1, <1>3, <1>4 DEF IInv

LEMMA TickSound ==
  ASSUME IInv, Tick \/ UNCHANGED vars
  PROVE  IInv'
<1>1. UNCHANGED <<pc, sent, stored, match, kept, unkept, answer, saw>>
  BY DEF Tick, vars
<1>2. TypeOK'
  BY <1>1, IngestAssumption DEF IInv, TypeOK, Tick, Time, vars
<1>3. ASSUME NEW q \in Posts PROVE Sound(q)'
  BY <1>1, OthersStaySound DEF IInv, TypeOK
<1> QED BY <1>2, <1>3 DEF IInv

LEMMA StepSound == IInv /\ [Next]_vars => IInv'
<1> SUFFICES ASSUME IInv, [Next]_vars PROVE IInv'
  OBVIOUS
<1>1. CASE Tick \/ UNCHANGED vars
  BY <1>1, TickSound
<1>2. ASSUME NEW r \in Posts, Ingest(r) PROVE IInv'
  BY <1>2, PostSound, FindExactSound, FindNearSound, InsertSound, PutObjectSound,
     SuppressSound, LoseSound DEF Ingest
<1> QED BY <1>1, <1>2 DEF Next

-----------------------------------------------------------------------------
(* Everything below holds of every reachable state. *)
LEMMA Inductive == Spec => []IInv
BY InitSound, StepSound, PTL DEF Spec

(* The variables keep their types, and a stored text is not kept twice.    *)
THEOREM IngestTypes == Spec => []TypeOK
<1>1. IInv => TypeOK
  BY DEF IInv
<1> QED BY <1>1, Inductive, PTL

(* resolveCardSmsIdempotency and findDuplicate: a post that brought a key  *)
(* or a time is answered with the key made of it.                          *)
THEOREM CallerKeysAreKeptAlways == Spec => []CallerKeysAreKept
<1>1. IInv => CallerKeysAreKept
  BY DEF IInv, Sound, Answered, CallerKeysAreKept
<1> QED BY <1>1, Inductive, PTL

(* findDuplicate: a retry that follows the row within its window is folded *)
(* into it, whatever the boundaries of the key's window.                   *)
THEOREM RetriesAreFoldedAlways == Spec => []RetriesAreFolded
<1>1. IInv => RetriesAreFolded
  BY DEF IInv, TypeOK, Sound, Folded, RetriesAreFolded
<1> QED BY <1>1, Inductive, PTL

(* absorb: an answered post left its text.                                 *)
THEOREM NothingVanishesAlways == Spec => []NothingVanishes
<1>1. IInv => NothingVanishes
  BY DEF IInv, Sound, Answered, NothingVanishes
<1> QED BY <1>1, Inductive, PTL

-----------------------------------------------------------------------------
(* What the inbox shows of a state changes only by new rows and answers.   *)
LEMMA BoxOf ==
  ASSUME NEW r \in Posts
  PROVE  Box[r] = IF r \in stored THEN Key(r) ELSE NoKey
BY DEF Box

LEMMA BoxUnchanged ==
  ASSUME stored' = stored, \A q \in stored : sent'[q] = sent[q]
  PROVE  Box' = Box
<1>1. \A q \in Posts : q \in stored => Key(q)' = Key(q)
  BY SentDecides
<1> QED BY <1>1 DEF Box

LEMMA InsertStores ==
  ASSUME IInv, NEW r \in Posts, Insert(r), \A q \in stored : Key(q) # Key(r)
  PROVE  Promise!Store(r)
<1>1. /\ r \notin stored /\ answer[r] = NoKey /\ Box[r] = NoKey
      /\ stored' = stored \cup {r} /\ sent' = sent /\ answer' = answer
  BY BoxOf DEF IInv, Sound, Placed, Answered, Insert
<1>2. Key(r) \in Keys /\ Key(r) # NoKey
  BY KeyOfPost DEF IInv, Sound, Insert
<1>3. \A q \in Posts : Box[q] # Key(r)
  BY <1>2, BoxOf
<1>4. \A q \in Posts : Key(q)' = Key(q)
  BY <1>1, SentDecides
<1>5. Box' = [Box EXCEPT ![r] = Key(r)]
  BY <1>1, <1>4 DEF Box
<1> QED BY <1>1, <1>2, <1>3, <1>5 DEF Promise!Store

LEMMA PutObjectAnswers ==
  ASSUME IInv, NEW r \in Posts, PutObject(r)
  PROVE  Promise!Answer(r)
<1>1. r \in stored /\ answer[r] = NoKey
  BY DEF IInv, Sound, Placed, Answered, PutObject
<1>2. Key(r) # NoKey
  BY KeyOfPost DEF IInv, Sound, PutObject
<1>3. Box' = Box
  BY BoxUnchanged DEF PutObject
<1>4. Box[r] = Key(r)
  BY <1>1, BoxOf
<1> QED BY <1>1, <1>2, <1>3, <1>4 DEF Promise!Answer, PutObject

LEMMA SuppressAnswers ==
  ASSUME IInv, NEW r \in Posts, Suppress(r)
  PROVE  Promise!Answer(r)
<1>1. r \notin stored /\ answer[r] = NoKey
  BY DEF IInv, Sound, Placed, Answered, Suppress
<1> DEFINE told == IF match[r] = None THEN Key(r) ELSE Key(match[r])
<1>2. (\E q \in stored : told = Key(q)) /\ told \in Keys
  BY ToldKey DEF Suppress
<1>3. answer' = [answer EXCEPT ![r] = told]
  BY DEF Suppress
<1> HIDE DEF told
<1>4. PICK q \in stored : told = Key(q)
  BY <1>2
<1>5. q \in Posts /\ Box[q] = told
  BY <1>4, BoxOf DEF IInv, TypeOK
<1>6. told # NoKey
  BY <1>2 DEF Keys, NoKey
<1>7. Box' = Box
  BY BoxUnchanged DEF Suppress
<1>8. Box[r] = NoKey
  BY <1>1, BoxOf
<1> QED BY <1>1, <1>3, <1>5, <1>6, <1>7, <1>8 DEF Promise!Answer

LEMMA StepImplements ==
  ASSUME IInv, [Next]_vars
  PROVE  [Promise!Next]_<<Box, answer>>
<1>1. CASE Tick \/ UNCHANGED vars
  BY <1>1, BoxUnchanged DEF Tick, vars
<1>2. ASSUME NEW r \in Posts, Ingest(r) PROVE [Promise!Next]_<<Box, answer>>
  <2>1. ASSUME NEW m \in Messages, Post(r, m) PROVE UNCHANGED <<Box, answer>>
    <3>1. r \notin stored
      BY <2>1 DEF IInv, Sound, Placed, Post
    <3>2. stored' = stored /\ answer' = answer /\ \A q \in stored : sent'[q] = sent[q]
      BY <2>1, <3>1 DEF IInv, TypeOK, Post
    <3> QED BY <3>2, BoxUnchanged
  <2>2. CASE FindExact(r) \/ FindNear(r) \/ Lose(r)
    BY <2>2, BoxUnchanged DEF FindExact, FindNear, Lose
  <2>3. CASE Insert(r)
    <3>1. CASE \A q \in stored : Key(q) # Key(r)
      BY <2>3, <3>1, InsertStores DEF Promise!Next
    <3>2. CASE \E q \in stored : Key(q) = Key(r)
      BY <2>3, <3>2, BoxUnchanged DEF Insert
    <3> QED BY <3>1, <3>2
  <2>4. CASE PutObject(r)
    BY <2>4, PutObjectAnswers DEF Promise!Next
  <2>5. CASE Suppress(r)
    BY <2>5, SuppressAnswers DEF Promise!Next
  <2> QED BY <1>2, <2>1, <2>2, <2>3, <2>4, <2>5 DEF Ingest
<1> QED BY <1>1, <1>2 DEF Next

(* ingest as a whole: however the posts meet, there is one row per key and *)
(* each caller is told the key of a row; the steps between are stutters.   *)
THEOREM IngestImplementsInbox == Spec => ImplementsInbox
<1>1. Init => Promise!Init
  BY DEF Init, Promise!Init, Box
<1>2. IInv /\ [Next]_vars => [Promise!Next]_<<Box, answer>>
  BY StepImplements
<1> QED BY <1>1, <1>2, Inductive, PTL DEF Spec, ImplementsInbox, Promise!Spec
=============================================================================
