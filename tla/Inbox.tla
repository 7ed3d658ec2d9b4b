-------------------------------- MODULE Inbox --------------------------------
(***************************************************************************)
(* What the card-message endpoints promise a phone: a message is stored at *)
(* most once per key, and whoever is answered is told the key of a message *)
(* that is stored, its own if it was stored for it.  Nothing is taken back.*)
(***************************************************************************)
CONSTANTS Posts, Keys, NoKey

VARIABLES
  box,     \* the key under which each post was stored
  answer   \* the key each post was told

Init ==
  /\ box = [p \in Posts |-> NoKey]
  /\ answer = [p \in Posts |-> NoKey]

Store(p) ==
  /\ answer[p] = NoKey /\ box[p] = NoKey /\ UNCHANGED answer
  /\ \E k \in Keys \ {box[q] : q \in Posts} : box' = [box EXCEPT ![p] = k]

Answer(p) ==
  /\ answer[p] = NoKey /\ UNCHANGED box
  /\ \E k \in IF box[p] = NoKey THEN {box[q] : q \in Posts} \ {NoKey} ELSE {box[p]} :
       answer' = [answer EXCEPT ![p] = k]

Next == \E p \in Posts : Store(p) \/ Answer(p)

Spec == Init /\ [][Next]_<<box, answer>>
=============================================================================
