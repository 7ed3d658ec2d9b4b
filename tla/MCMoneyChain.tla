---------------------------- MODULE MCMoneyChain -----------------------------
(***************************************************************************)
(* Instances of MoneyChain for TLC.                                        *)
(***************************************************************************)
EXTENDS MoneyChain, TLC

CONSTANTS s1, s2, s3

Symmetry == Permutations(Sessions)

\* KRW per foreign unit on two days; with 1.2 three units are not the sum of
\* one and two units in whole KRW
MCRate == <<12, 17>>
MCIdentityAll == Cancellations \X Approvals
MCHouse == [i \in Ids |-> "h1"]

Blank == [op |-> "link", id |-> 1, to |-> None, units |-> 0, cur |-> "KRW",
          at |-> 1, flag |-> NoFlag, changes |-> {}, api |-> FALSE]
Plain(op, id) == [Blank EXCEPT !.op = op, !.id = id]
Approve(a, units, cur, at) ==
  [Plain("createApproval", a) EXCEPT !.units = units, !.cur = cur, !.at = at]
Cancel(c, units, cur, at) ==
  [Plain("createCancellation", c) EXCEPT !.units = units, !.cur = cur, !.at = at]
LinkTo(c, a) == [Plain("link", c) EXCEPT !.to = a]
Flag(i, flag) == [Plain("setReviewFlag", i) EXCEPT !.flag = flag]
AmendUnits(a, units) ==
  [Plain("amend", a) EXCEPT !.units = units, !.changes = {"units"}]
AmendDay(a, at) == [Plain("amend", a) EXCEPT !.at = at, !.changes = {"at"}]
Api(k) == [k EXCEPT !.api = TRUE]

\* linking, relinking, unlinking and removing around two approvals
LinkCommands ==
  {Approve(1, 3, "KRW", 1), Approve(3, 2, "KRW", 1),
   Cancel(2, 2, "KRW", 1), Cancel(4, 1, "KRW", 1)}
  \cup {LinkTo(c, a) : c \in {2, 4}, a \in {1, 3}}
  \cup {LinkTo(2, 4), LinkTo(4, 2)}
  \cup {Plain("unlink", 2), Plain("removeCancellation", 4),
        Plain("removeTransaction", 1)}

\* foreign amounts, rates of two days, amendments, flags and reviews
ForeignCommands ==
  {Approve(1, 3, "USD", 1), Cancel(2, 1, "USD", 2), Cancel(4, 2, "USD", 2),
   Cancel(4, 1, "KRW", 2),
   AmendUnits(1, 1), AmendDay(1, 2), LinkTo(2, 1), LinkTo(4, 1),
   Plain("unlink", 2), Plain("removeTransaction", 1),
   Plain("recalculate", 1)}

ReviewCommands ==
  {[Approve(1, 2, "KRW", 1) EXCEPT !.flag = "duplicate_suspected"],
   Approve(3, 2, "KRW", 1), Cancel(2, 2, "KRW", 2), Cancel(4, 1, "KRW", 2),
   Flag(1, "duplicate_suspected"), Flag(1, NoFlag),
   Flag(2, "duplicate_suspected"), Api(Flag(2, NoFlag)),
   Api(LinkTo(2, 1)), Plain("unlink", 2), Plain("removeTransaction", 2),
   Api(AmendUnits(3, 3))}

ForeignAndReview == ForeignCommands \cup ReviewCommands
=============================================================================
