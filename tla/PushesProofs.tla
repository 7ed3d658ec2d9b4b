---------------------------- MODULE PushesProofs ----------------------------
(***************************************************************************)
(* Theorems about Pushes, for any number of promotions, thresholds,        *)
(* devices, attempts and faults: types, that no job is queued twice, that  *)
(* no device is sent a job again after it was recorded, that a job that    *)
(* ends owes nothing, and that the highest threshold crossed is announced. *)
(* They rest on an inductive invariant, the last on a second one that      *)
(* follows the spending, and on what the sum of the shares is.             *)
(***************************************************************************)
EXTENDS Pushes, WellFoundedInduction, FiniteSetTheorems, TLAPS

(***************************************************************************)
(* The inductive invariant.  CheckInv ties a promotion's place to what it  *)
(* has queued: a threshold it is to announce it alone has marked, and      *)
(* nothing of it was queued.  So no job is added again after its end has   *)
(* made the queue forget it, and RunInv can say that a job remembers every *)
(* device it has reached, but for those of the attempt in flight.          *)
(***************************************************************************)
Before == {"commit", "notify"}

CheckInv ==
  \A p \in Promotions :
    LET c == check[p] IN
    /\ c.pc \in Before => queued[p] = 0
    /\ c.pc = "mark" => c.left # {}
    /\ c.pc = "announce" => c.send # None
    /\ c.pc \notin {"mark", "announce"} => c.send = None
    /\ c.send # None =>
         /\ c.send \in marked /\ queued[c.send] = 0
         /\ \A q \in Promotions \ {p} : check[q].send # c.send

QueueInv ==
  /\ \A j \in Jobs : queued[j] <= 1
  /\ \A t \in Thresholds \ marked : queued[t] = 0
  /\ \A j \in Jobs : queued[j] = 0 =>
       job[j].state = "none" /\ job[j].sent = {} /\ pushed[j] = {}

RunInv ==
  /\ run.job = None => run = Idle
  /\ run = Idle => owed = {}
  /\ owed # {} => run.retry
  /\ \A j \in Jobs : job[j].state = "active" <=> run.job = j
  /\ \A j \in Jobs : job[j].state \in {"waiting", "active"} => job[j].tries < Attempts
  /\ \A j \in Jobs : job[j].state = "waiting" => pushed[j] \subseteq job[j].sent
  /\ run.job \in Jobs =>
       /\ pushed[run.job] \subseteq job[run.job].sent \cup run.new
       /\ run.to \cap (job[run.job].sent \cup run.new) = {}

Inv == TypeOK /\ CheckInv /\ QueueInv /\ RunInv

-----------------------------------------------------------------------------
(* A finite set of thresholds has a largest one: if some had none, the     *)
(* least of them under inclusion, less one of its members, would have.     *)
LEMMA MaxIsMember ==
  ASSUME NEW T \in SUBSET Thresholds, T # {}
  PROVE  Max(T) \in T /\ \A t \in T : Max(T) >= t
<1> DEFINE Top(S) == \E t \in S : \A u \in S : t >= u
           Bad == {S \in FiniteSubsetsOf(Thresholds) : S # {} /\ ~Top(S)}
<1>1. Bad = {}
  <2>1. SUFFICES ASSUME Bad # {} PROVE FALSE
    OBVIOUS
  <2>2. PICK S \in Bad : \A U \in Bad : ~(<<U, S>> \in StrictSubsetOrdering(Thresholds))
    <3>1. Bad \subseteq FiniteSubsetsOf(Thresholds)
      OBVIOUS
    <3> HIDE DEF Bad
    <3> QED
      BY <2>1, <3>1, FS_StrictSubsetOrderingWellFounded, WFMin
  <2>3. PICK t \in S : TRUE
    OBVIOUS
  <2>4. S \ {t} \notin Bad
    <3>1. S \ {t} \in SUBSET Thresholds /\ S \in SUBSET Thresholds
      BY DEF FiniteSubsetsOf
    <3>2. <<S \ {t}, S>> \in StrictSubsetOrdering(Thresholds)
      BY <2>3, <3>1 DEF StrictSubsetOrdering
    <3> QED
      BY <2>2, <3>2
  <2>5. S \ {t} \in FiniteSubsetsOf(Thresholds)
    BY FS_RemoveElement DEF FiniteSubsetsOf
  <2>6. S \subseteq Nat
    BY PushAssumption DEF FiniteSubsetsOf
  <2>7. CASE S \ {t} = {}
    BY <2>3, <2>6, <2>7
  <2>8. CASE Top(S \ {t})
    <3>1. PICK u \in S \ {t} : \A v \in S \ {t} : u >= v
      BY <2>8
    <3>2. CASE u >= t
      BY <2>6, <3>1, <3>2
    <3>3. CASE t >= u
      BY <2>6, <3>1, <3>3
    <3> QED
      BY <2>6, <3>1, <3>2, <3>3
  <2> QED
    BY <2>4, <2>5, <2>7, <2>8
<1>2. T \in FiniteSubsetsOf(Thresholds)
  BY PushAssumption, FS_Subset DEF FiniteSubsetsOf
<1>3. Top(T)
  BY <1>1, <1>2
<1> QED
  BY <1>3 DEF Max

(* A job added for the first time starts fresh; nothing else changes.      *)
QueueKept ==
  /\ job' \in [Jobs -> [state: {"none", "waiting", "active", "completed", "failed"},
                        tries: 0 .. Attempts, sent: SUBSET Devices]]
  /\ queued' \in [Jobs -> Nat] /\ faults' \in 0 .. MaxFaults
  /\ run # Idle => job'[run.job].state = "active"
  /\ \A j \in Jobs : queued'[j] <= 1
  /\ \A j \in Jobs : queued'[j] = 0 =>
       job'[j].state = "none" /\ job'[j].sent = {} /\ pushed[j] = {}
  /\ RunInv'

LEMMA FaultType == ASSUME Inv, Fault PROVE faults' \in 0 .. MaxFaults
BY PushAssumption DEF Inv, TypeOK, Fault

LEMMA AddFirst ==
  ASSUME Inv, NEW j \in Jobs, queued[j] = 0, AddOrLose(j),
         UNCHANGED <<run, pushed, owed>>
  PROVE  QueueKept /\ \A i \in Jobs \ {j} : queued'[i] = queued[i]
<1> USE PushAssumption DEF Inv, QueueInv
<1>1. CASE Add(j) /\ UNCHANGED faults
  <2> DEFINE fresh == [state |-> "waiting", tries |-> 0, sent |-> {}]
  <2>1. job[j].state = "none" /\ pushed[j] = {}
    OBVIOUS
  <2>2. /\ job' = [job EXCEPT ![j] = fresh]
        /\ queued' = [queued EXCEPT ![j] = @ + 1]
    BY <1>1, <2>1 DEF Add
  <2>3. \A i \in Jobs : queued'[i] = IF i = j THEN 1 ELSE queued[i]
    BY <2>2 DEF TypeOK
  <2>4. \A i \in Jobs : job'[i] = IF i = j THEN fresh ELSE job[i]
    BY <2>2 DEF TypeOK
  <2>5. job' \in [Jobs -> [state: {"none", "waiting", "active", "completed", "failed"},
                           tries: 0 .. Attempts, sent: SUBSET Devices]]
    BY <2>2 DEF TypeOK
  <2>6. queued' \in [Jobs -> Nat] /\ faults' \in 0 .. MaxFaults
    BY <1>1, <2>2 DEF TypeOK
  <2>7. run.job # j
    BY <2>1 DEF RunInv
  <2>8. RunInv'
    BY <2>1, <2>4, <2>7 DEF RunInv, Idle
  <2>9. run # Idle => job'[run.job].state = "active"
    BY <2>4, <2>7 DEF TypeOK, RunInv
  <2> HIDE DEF fresh
  <2> QED
    BY <2>3, <2>4, <2>5, <2>6, <2>8, <2>9 DEF QueueKept
<1>2. CASE Fault /\ UNCHANGED <<job, queued>>
  BY <1>2, FaultType DEF QueueKept, RunInv, TypeOK, Idle
<1> QED
  BY <1>1, <1>2 DEF AddOrLose

-----------------------------------------------------------------------------
(* The steps of a promotion.                                               *)
LEMMA PromotionKeeps ==
  ASSUME Inv, NEW p \in Promotions, Promote(p) \/ PromotionCrash(p)
  PROVE  Inv'
<1> USE PushAssumption DEF Jobs
<1> DEFINE Place == [pc: {"commit", "notify", "read", "mark", "announce", "done"},
                     left: SUBSET Thresholds, send: Thresholds \cup {None}]
<1>t. /\ check \in [Promotions -> Place] /\ check[p] \in Place
      /\ CheckInv /\ QueueInv /\ RunInv /\ TypeOK
  BY DEF Inv, TypeOK
(* Most steps change only where p is.                                      *)
<1>m. ASSUME NEW place \in Place, check' = [check EXCEPT ![p] = place],
             UNCHANGED <<marked, job, run, queued, pushed, owed>>,
             spent' \subseteq Promotions, faults' \in 0 .. MaxFaults,
             place.pc \in Before => check[p].pc \in Before,
             place.pc = "mark" => place.left # {},
             place.pc \notin {"mark", "announce"} => place.send = None,
             place.pc = "announce" => place.send # None,
             place.send # None => place.send = check[p].send
      PROVE  Inv'
  <2>1. \A q \in Promotions : check'[q] = IF q = p THEN place ELSE check[q]
    BY <1>t, <1>m
  <2>2. TypeOK'
    BY <1>t, <1>m DEF TypeOK
  <2>3. CheckInv'
    BY <1>t, <1>m, <2>1 DEF CheckInv
  <2>4. QueueInv' /\ RunInv'
    BY <1>t, <1>m DEF QueueInv, RunInv, Idle
  <2> QED
    BY <2>2, <2>3, <2>4 DEF Inv
<1>1. CASE Commit(p)
  <2> DEFINE place == [check[p] EXCEPT !.pc = "notify"]
  <2>1. place \in Place /\ place.pc = "notify" /\ place.send = check[p].send
    BY <1>t
  <2>2. check[p].pc = "commit" /\ check' = [check EXCEPT ![p] = place]
    BY <1>1, <1>t DEF Commit, At, Goto
  <2>3. check[p].send = None
    BY <1>t, <2>2 DEF CheckInv
  <2> HIDE DEF place
  <2>4. /\ UNCHANGED <<marked, job, run, queued, pushed, owed>>
        /\ spent' \subseteq Promotions /\ faults' \in 0 .. MaxFaults
    BY <1>1, <1>t DEF Commit, TypeOK, historyVars
  <2>5. place.pc \in Before => check[p].pc \in Before
    BY <2>2 DEF Before
  <2> HIDE DEF Place
  <2> QED
    BY <1>m, <2>1, <2>2, <2>3, <2>4, <2>5
<1>2. CASE ReadUsage(p)
  <2> DEFINE place == IF Crossed = {} THEN Rest
                      ELSE [pc |-> "mark", left |-> Crossed, send |-> None]
  <2>1. /\ place \in Place /\ place.pc \in {"mark", "done"} /\ place.send = None
        /\ place.pc = "mark" => place.left # {}
    BY DEF Rest, Crossed
  <2>2. check' = [check EXCEPT ![p] = place]
    BY <1>2 DEF ReadUsage, End
  <2> HIDE DEF place
  <2> QED
    BY <1>2, <1>t, <1>m, <2>1, <2>2 DEF ReadUsage, Before, TypeOK, historyVars
<1>3. CASE PromotionCrash(p)
  <2>1. Rest \in Place /\ Rest.pc = "done" /\ Rest.send = None
    BY DEF Rest
  <2>2. check' = [check EXCEPT ![p] = Rest] /\ faults' \in 0 .. MaxFaults
    BY <1>3, FaultType DEF PromotionCrash, End
  <2> QED
    BY <1>3, <1>t, <1>m, <2>1, <2>2 DEF PromotionCrash, Before, TypeOK, historyVars
<1>4. CASE Notify(p)
  <2> DEFINE place == [check[p] EXCEPT !.pc = "read"]
  <2>1. place \in Place /\ place.pc = "read" /\ place.send = check[p].send
    BY <1>t
  <2>2. check[p].pc = "notify" /\ check' = [check EXCEPT ![p] = place]
    BY <1>4, <1>t DEF Notify, At, Goto
  <2>3. check[p].send = None /\ queued[p] = 0
    BY <1>t, <2>2 DEF CheckInv, Before
  <2>4. QueueKept /\ \A i \in Jobs \ {p} : queued'[i] = queued[i]
    BY <1>4, <2>3, AddFirst DEF Notify, historyVars
  <2>5. \A q \in Promotions : check'[q] = IF q = p THEN place ELSE check[q]
    BY <1>t, <2>2
  <2>6. UNCHANGED <<spent, marked, run, pushed, owed>>
    BY <1>4 DEF Notify, historyVars
  <2>7. TypeOK'
    BY <1>t, <2>1, <2>2, <2>4, <2>6 DEF TypeOK, QueueKept
  <2> HIDE DEF place
  <2>8. CheckInv'
    <3>1. \A t \in Thresholds : queued'[t] = queued[t]
      BY <2>4
    <3>2. \A q \in Promotions \ {p} : queued'[q] = queued[q]
      BY <2>4
    <3>3. \A q \in Promotions : check'[q].send = check[q].send
      BY <2>1, <2>5
    <3>4. \A q \in Promotions : check[q].send # None => check[q].send \in Thresholds
      BY <1>t
    <3>5. \A q \in Promotions \ {p} : check'[q] = check[q]
      BY <2>5
    <3>6. ASSUME NEW q \in Promotions, check'[q].send # None
          PROVE  /\ check'[q].send \in marked' /\ queued'[check'[q].send] = 0
                 /\ \A r \in Promotions \ {q} : check'[r].send # check'[q].send
      <4>1. /\ check[q].send # None /\ check[q].send \in Thresholds
            /\ check'[q].send = check[q].send
        BY <3>3, <3>4, <3>6
      <4>2. queued'[check[q].send] = queued[check[q].send]
        BY <3>1, <4>1
      <4>3. /\ check[q].send \in marked /\ queued[check[q].send] = 0
            /\ \A r \in Promotions \ {q} : check[r].send # check[q].send
        BY <1>t, <4>1 DEF CheckInv
      <4> QED
        BY <2>6, <3>3, <4>1, <4>2, <4>3
    <3>7. ASSUME NEW q \in Promotions
          PROVE  /\ check'[q].pc \in Before => queued'[q] = 0
                 /\ check'[q].pc = "mark" => check'[q].left # {}
                 /\ check'[q].pc = "announce" => check'[q].send # None
                 /\ check'[q].pc \notin {"mark", "announce"} => check'[q].send = None
      <4>1. CASE q = p
        BY <2>1, <2>3, <2>5, <4>1 DEF Before
      <4>2. CASE q # p
        BY <1>t, <3>2, <3>5, <4>2 DEF CheckInv
      <4> QED
        BY <4>1, <4>2
    <3> QED
      BY <3>6, <3>7 DEF CheckInv
  <2>9. QueueInv' /\ RunInv'
    <3>1. \A t \in Thresholds \ marked' : queued'[t] = 0
      BY <1>t, <2>4, <2>6 DEF QueueInv
    <3> QED
      BY <2>4, <2>6, <3>1 DEF QueueInv, QueueKept
  <2> QED
    BY <2>7, <2>8, <2>9 DEF Inv
<1>5. CASE Mark(p)
  <2> DEFINE t == Max(check[p].left)
             rest == check[p].left \ {t}
             send == IF check[p].send = None /\ t \notin marked THEN t ELSE check[p].send
             place == IF rest = {} /\ send = None THEN Rest
                      ELSE [pc |-> IF rest = {} THEN "announce" ELSE "mark",
                            left |-> rest, send |-> send]
  <2>1. check[p].pc = "mark" /\ check[p].left # {}
    BY <1>5, <1>t DEF Mark, At, CheckInv
  <2>2. t \in check[p].left /\ t \in Thresholds
    BY <1>t, <2>1, MaxIsMember
  <2>3. /\ check' = [check EXCEPT ![p] = place] /\ marked' = marked \cup {t}
        /\ UNCHANGED <<spent, job, run, faults, queued, pushed, owed>>
    BY <1>5 DEF Mark, End, historyVars
  <2> HIDE DEF t
  <2>4. send \in Thresholds \cup {None} /\ rest \subseteq Thresholds
    BY <1>t, <2>2
  <2>5. /\ place \in Place /\ place.pc \notin Before /\ place.send = send
        /\ place.pc = "mark" => place.left # {}
        /\ place.pc = "announce" => send # None
        /\ place.pc \notin {"mark", "announce"} => send = None
    BY <2>4 DEF Rest, Before
  <2>6. send # None => \/ send = check[p].send
                       \/ send = t /\ t \notin marked
    OBVIOUS
  <2> HIDE DEF rest, send, place
  <2>7. \A q \in Promotions : check'[q] = IF q = p THEN place ELSE check[q]
    BY <1>t, <2>3
  <2>8. TypeOK'
    BY <1>t, <2>2, <2>3, <2>5 DEF TypeOK
  <2>9. \A q \in Promotions : t \notin marked => check[q].send # t
    BY <1>t, <2>2 DEF CheckInv
  <2>10. t \notin marked => queued[t] = 0
    BY <1>t, <2>2 DEF QueueInv
  <2>11. CheckInv'
    <3> SUFFICES ASSUME NEW q \in Promotions
                 PROVE  /\ check'[q].pc \in Before => queued[q] = 0
                        /\ check'[q].pc = "mark" => check'[q].left # {}
                        /\ check'[q].pc = "announce" => check'[q].send # None
                        /\ check'[q].pc \notin {"mark", "announce"} => check'[q].send = None
                        /\ check'[q].send # None =>
                             /\ check'[q].send \in marked' /\ queued[check'[q].send] = 0
                             /\ \A r \in Promotions \ {q} : check'[r].send # check'[q].send
      BY <2>3 DEF CheckInv
    <3>1. CASE q = p
      BY <1>t, <2>3, <2>5, <2>6, <2>7, <2>9, <2>10, <3>1 DEF CheckInv
    <3>2. CASE q # p
      BY <1>t, <2>3, <2>5, <2>6, <2>7, <2>9, <3>2 DEF CheckInv
    <3> QED
      BY <3>1, <3>2
  <2>12. QueueInv' /\ RunInv'
    BY <1>t, <2>2, <2>3 DEF QueueInv, RunInv, Idle
  <2> QED
    BY <2>8, <2>11, <2>12 DEF Inv
<1>6. CASE Announce(p)
  <2> DEFINE t == check[p].send
  <2>1. check[p].pc = "announce" /\ check' = [check EXCEPT ![p] = Rest]
    BY <1>6 DEF Announce, At, End
  <2>2. /\ t \in Thresholds /\ t \in marked /\ queued[t] = 0
        /\ \A q \in Promotions \ {p} : check[q].send # t
    BY <1>t, <2>1 DEF CheckInv
  <2>3. QueueKept /\ \A i \in Jobs \ {t} : queued'[i] = queued[i]
    BY <1>6, <2>2, AddFirst DEF Announce, historyVars
  <2>4. UNCHANGED <<spent, marked, run, pushed, owed>>
    BY <1>6 DEF Announce, historyVars
  <2>5. Rest \in Place /\ Rest.pc = "done" /\ Rest.send = None
    BY DEF Rest
  <2>6. \A q \in Promotions : check'[q] = IF q = p THEN Rest ELSE check[q]
    BY <1>t, <2>1
  <2>7. TypeOK'
    BY <1>t, <2>1, <2>3, <2>4, <2>5 DEF TypeOK, QueueKept
  <2> HIDE DEF t
  <2>8. CheckInv'
    <3>1. \A q \in Promotions : queued'[q] = queued[q]
      BY <2>2, <2>3
    <3>2. \A q \in Promotions \ {p} : check[q].send # None =>
             queued'[check[q].send] = queued[check[q].send]
      BY <1>t, <2>2, <2>3
    <3> QED
      BY <1>t, <2>4, <2>5, <2>6, <3>1, <3>2 DEF CheckInv, Before
  <2>9. QueueInv' /\ RunInv'
    BY <1>t, <2>2, <2>3, <2>4 DEF QueueInv, QueueKept
  <2> QED
    BY <2>7, <2>8, <2>9 DEF Inv
<1> QED
  BY <1>1, <1>2, <1>3, <1>4, <1>5, <1>6 DEF Promote

-----------------------------------------------------------------------------
(* The steps of the worker.                                                *)
JobRow == [state: {"none", "waiting", "active", "completed", "failed"},
           tries: 0 .. Attempts, sent: SUBSET Devices]

LEMMA StartKeeps == ASSUME Inv, NEW j \in Jobs, Start(j) PROVE Inv'
<1>t. job \in [Jobs -> JobRow] /\ TypeOK /\ CheckInv /\ QueueInv /\ RunInv
  BY DEF Inv, TypeOK, JobRow
<1>1. PICK ds \in SUBSET Devices :
        run' = [job |-> j, to |-> ds \ job[j].sent, new |-> {}, retry |-> FALSE]
  BY DEF Start, Recipients
<1> DEFINE active == [job[j] EXCEPT !.state = "active"]
<1>2. /\ run = Idle /\ job[j].state = "waiting" /\ job' = [job EXCEPT ![j] = active]
      /\ UNCHANGED <<spent, check, marked, faults, queued, pushed, owed>>
  BY DEF Start, promotionVars, historyVars
<1>3. /\ active \in JobRow /\ active.state = "active"
      /\ active.sent = job[j].sent /\ active.tries = job[j].tries
  BY <1>t DEF JobRow
<1> HIDE DEF active
<1>4. \A i \in Jobs : job'[i] = IF i = j THEN active ELSE job[i]
  BY <1>t, <1>2
<1>5. j # None
  BY PushAssumption
<1>6. TypeOK'
  BY <1>t, <1>1, <1>2, <1>3, <1>4 DEF TypeOK, JobRow
<1>7. CheckInv' /\ QueueInv'
  BY <1>t, <1>2, <1>4 DEF CheckInv, QueueInv, Before
<1>8. RunInv'
  <2>1. run.job = None /\ owed' = {}
    BY <1>t, <1>2 DEF RunInv, Idle
  <2>2. \A i \in Jobs : job'[i].state = "active" <=> run'.job = i
    BY <1>t, <1>1, <1>3, <1>4, <2>1, PushAssumption DEF RunInv
  <2>3. \A i \in Jobs : job'[i].state \in {"waiting", "active"} => job'[i].tries < Attempts
    BY <1>t, <1>2, <1>3, <1>4 DEF RunInv
  <2>4. \A i \in Jobs : job'[i].state = "waiting" => pushed'[i] \subseteq job'[i].sent
    BY <1>t, <1>2, <1>3, <1>4 DEF RunInv
  <2>5. pushed'[j] \subseteq job'[j].sent /\ run'.to \cap job'[j].sent = {}
    BY <1>t, <1>1, <1>2, <1>3, <1>4 DEF RunInv
  <2> QED
    BY <1>1, <1>5, <2>1, <2>2, <2>3, <2>4, <2>5 DEF RunInv
<1> QED
  BY <1>6, <1>7, <1>8 DEF Inv

LEMMA SendKeeps == ASSUME Inv, NEW d \in Devices, Send(d) PROVE Inv'
<1>t. TypeOK /\ CheckInv /\ QueueInv /\ RunInv
  BY DEF Inv
<1>1. d \in run.to /\ UNCHANGED <<spent, check, marked, job, queued>>
  BY DEF Send, promotionVars
<1>2. run # Idle /\ run.job \in Jobs
  BY <1>t, <1>1 DEF TypeOK, RunInv, Idle
<1>3. queued[run.job] # 0
  BY <1>t, <1>2 DEF QueueInv, TypeOK
(* Whatever the answer is, the device is taken off the list.               *)
<1>4. /\ run'.job = run.job /\ run'.to = run.to \ {d}
      /\ run'.new \subseteq run.new \cup {d} /\ run.new \subseteq run'.new
      /\ run' \in [job: Jobs \cup {None}, to: SUBSET Devices, new: SUBSET Devices,
                   retry: BOOLEAN]
      /\ run.retry => run'.retry
  <2>1. run \in [job: Jobs \cup {None}, to: SUBSET Devices, new: SUBSET Devices,
                retry: BOOLEAN]
    BY <1>t DEF TypeOK
  <2>2. CASE Accepted(d)
    <3>1. run' = [run EXCEPT !.to = run.to \ {d}, !.new = run.new \cup {d}]
      BY <2>2 DEF Accepted
    <3> QED
      BY <2>1, <3>1
  <2>3. CASE Refused(d) \/ Unrecorded(d)
    <3>1. run' = [run EXCEPT !.to = run.to \ {d}]
      BY <2>3 DEF Refused, Unrecorded
    <3> QED
      BY <2>1, <3>1
  <2>4. CASE Unavailable(d)
    <3>1. run' = [run EXCEPT !.to = run.to \ {d}, !.retry = TRUE]
      BY <2>4 DEF Unavailable
    <3> QED
      BY <2>1, <3>1
  <2> QED
    BY <2>2, <2>3, <2>4 DEF Send
<1>5. faults' \in 0 .. MaxFaults
  BY <1>t, PushAssumption
     DEF Send, Accepted, Refused, Unavailable, Unrecorded, Fault, TypeOK
<1>6. owed' \subseteq Devices /\ (owed' # {} => run'.retry)
  BY <1>t DEF Send, Accepted, Refused, Unavailable, Unrecorded, TypeOK, RunInv
<1>7. \/ pushed' = pushed
      \/ pushed' = [pushed EXCEPT ![run.job] = @ \cup {d}] /\ run'.new = run.new \cup {d}
  BY <1>t DEF Send, Accepted, Refused, Unavailable, Unrecorded, TypeOK
<1>8. pushed' \in [Jobs -> SUBSET Devices]
  BY <1>t, <1>7 DEF TypeOK
<1>9. \A j \in Jobs \ {run.job} : pushed'[j] = pushed[j]
  BY <1>t, <1>7 DEF TypeOK
<1>10. pushed'[run.job] \subseteq job[run.job].sent \cup run'.new
  BY <1>t, <1>2, <1>4, <1>7 DEF TypeOK, RunInv
<1>11. run' # Idle
  BY <1>2, <1>4, PushAssumption DEF Idle
<1>12. TypeOK'
  BY <1>t, <1>1, <1>2, <1>4, <1>5, <1>6, <1>8 DEF TypeOK
<1>13. CheckInv' /\ QueueInv'
  BY <1>t, <1>1, <1>3, <1>9 DEF CheckInv, QueueInv, Before
<1>14. RunInv'
  <2>1. run.job # None /\ job[run.job].state = "active"
    BY <1>t, <1>2, PushAssumption DEF RunInv
  <2>2. run'.to \cap (job[run.job].sent \cup run'.new) = {}
    BY <1>t, <1>2, <1>4 DEF RunInv
  <2> QED
    BY <1>t, <1>1, <1>2, <1>4, <1>6, <1>9, <1>10, <1>11, <2>1, <2>2 DEF RunInv
<1> QED
  BY <1>12, <1>13, <1>14 DEF Inv

(* The attempt ends: the job is left with a row that remembers what it has *)
(* reached, or is never taken again.                                       *)
LEMMA EndKeeps ==
  ASSUME Inv, run # Idle, NEW row \in JobRow, job' = [job EXCEPT ![run.job] = row],
         row.state \in {"waiting", "completed", "failed"},
         row.state = "waiting" => row.tries < Attempts,
         run' = Idle, owed' = {}, UNCHANGED <<spent, check, marked, queued>>,
         faults' \in 0 .. MaxFaults, pushed' \in [Jobs -> SUBSET Devices],
         \A j \in Jobs \ {run.job} : pushed'[j] = pushed[j],
         row.state = "waiting" => pushed'[run.job] \subseteq row.sent
  PROVE  Inv'
<1>t. job \in [Jobs -> JobRow] /\ TypeOK /\ CheckInv /\ QueueInv /\ RunInv
  BY DEF Inv, TypeOK, JobRow
<1>1. run.job \in Jobs /\ run.job # None
  BY <1>t DEF TypeOK, RunInv
<1>2. queued[run.job] # 0
  BY <1>t, <1>1 DEF QueueInv, TypeOK
<1>3. \A j \in Jobs : job'[j] = IF j = run.job THEN row ELSE job[j]
  BY <1>t
<1>4. run'.job = None /\ run' \in [job: Jobs \cup {None}, to: SUBSET Devices,
                                   new: SUBSET Devices, retry: BOOLEAN]
  BY DEF Idle
<1>5. TypeOK'
  BY <1>t, <1>4 DEF TypeOK, JobRow
<1>6. CheckInv' /\ QueueInv'
  BY <1>t, <1>1, <1>2, <1>3 DEF CheckInv, QueueInv, Before
<1>7. RunInv'
  BY <1>t, <1>1, <1>3, <1>4, PushAssumption DEF RunInv
<1> QED
  BY <1>5, <1>6, <1>7 DEF Inv

LEMMA HiddenKeeps ==
  ASSUME Inv, run # Idle, Hidden
  PROVE  /\ pushed' \in [Jobs -> SUBSET Devices]
         /\ \A j \in Jobs \ {run.job} : pushed'[j] = pushed[j]
         /\ pushed'[run.job] \subseteq job[run.job].sent
BY DEF Inv, TypeOK, RunInv, Hidden

LEMMA EndedType ==
  ASSUME NEW row \in JobRow, row.tries < Attempts, NEW retry \in BOOLEAN
  PROVE  /\ Ended(row, retry) \in JobRow
         /\ Ended(row, retry).state \in {"waiting", "completed", "failed"}
         /\ Ended(row, retry).state = "waiting" =>
              Ended(row, retry).tries < Attempts /\ Ended(row, retry).sent = row.sent
         /\ retry => Ended(row, retry).state # "completed"
<1>1. CASE retry
  <2> DEFINE state == IF row.tries + 1 < Attempts THEN "waiting" ELSE "failed"
  <2>1. Ended(row, retry) = [row EXCEPT !.state = state, !.tries = @ + 1]
    BY <1>1 DEF Ended
  <2>2. row.tries + 1 \in 0 .. Attempts
    BY PushAssumption DEF JobRow
  <2>3. state \in {"waiting", "failed"} /\ (state = "waiting" => row.tries + 1 < Attempts)
    OBVIOUS
  <2> HIDE DEF state
  <2> QED
    BY <2>1, <2>2, <2>3 DEF JobRow
<1>2. CASE ~retry
  BY <1>2, PushAssumption DEF Ended, JobRow
<1> QED
  BY <1>1, <1>2

LEMMA FinishKeeps == ASSUME Inv, Finish PROVE Inv'
<1>t. job \in [Jobs -> JobRow] /\ TypeOK /\ RunInv
  BY DEF Inv, TypeOK, JobRow
<1> DEFINE j == run.job
<1>1. /\ run # Idle /\ run.to = {} /\ run' = Idle /\ owed' = {}
      /\ UNCHANGED <<spent, check, marked, queued>>
  BY DEF Finish, promotionVars
<1>2. /\ j \in Jobs /\ job[j] \in JobRow /\ job[j].tries < Attempts
      /\ run.retry \in BOOLEAN /\ run.new \subseteq Devices
  BY <1>t, <1>1 DEF TypeOK, RunInv
<1>3. CASE job' = [job EXCEPT ![j] = Ended(Saved(@), run.retry)] /\ UNCHANGED <<faults, pushed>>
  <2>1. /\ Saved(job[j]) \in JobRow /\ Saved(job[j]).tries < Attempts
        /\ Saved(job[j]).sent = job[j].sent \cup run.new
    BY <1>2 DEF Saved, JobRow
  <2> DEFINE row == Ended(Saved(job[j]), run.retry)
  <2>2. /\ row \in JobRow /\ row.state \in {"waiting", "completed", "failed"}
        /\ row.state = "waiting" =>
             row.tries < Attempts /\ row.sent = job[j].sent \cup run.new
    BY <1>2, <2>1, EndedType
  <2>3. job' = [job EXCEPT ![j] = row]
    BY <1>3
  <2>4. pushed[j] \subseteq job[j].sent \cup run.new
    BY <1>t, <1>2 DEF RunInv
  <2>5. faults' \in 0 .. MaxFaults /\ pushed' \in [Jobs -> SUBSET Devices]
    BY <1>t, <1>3 DEF TypeOK
  <2> HIDE DEF row
  <2> QED
    BY <1>1, <1>3, <2>2, <2>3, <2>4, <2>5, EndKeeps
<1>4. CASE Fault /\ Hidden /\ job' = [job EXCEPT ![j] = Ended(@, TRUE)]
  <2> DEFINE row == Ended(job[j], TRUE)
  <2>1. /\ row \in JobRow /\ row.state \in {"waiting", "completed", "failed"}
        /\ row.state = "waiting" => row.tries < Attempts /\ row.sent = job[j].sent
    BY <1>2, EndedType
  <2>2. job' = [job EXCEPT ![j] = row]
    BY <1>4
  <2> HIDE DEF row
  <2> QED
    BY <1>1, <1>4, <2>1, <2>2, FaultType, HiddenKeeps, EndKeeps
<1> QED
  BY <1>3, <1>4 DEF Finish

LEMMA CrashKeeps == ASSUME Inv, WorkerCrash PROVE Inv'
<1>t. job \in [Jobs -> JobRow] /\ TypeOK /\ RunInv
  BY DEF Inv, TypeOK, JobRow
<1> DEFINE row == [job[run.job] EXCEPT !.state = "waiting"]
<1>1. /\ run # Idle /\ Fault /\ Hidden /\ job' = [job EXCEPT ![run.job] = row]
      /\ run' = Idle /\ owed' = {} /\ UNCHANGED <<spent, check, marked, queued>>
  BY DEF WorkerCrash, promotionVars
<1>2. job[run.job] \in JobRow /\ job[run.job].tries < Attempts
  BY <1>t, <1>1 DEF TypeOK, RunInv
<1>3. /\ row \in JobRow /\ row.state = "waiting" /\ row.sent = job[run.job].sent
      /\ row.tries < Attempts
  BY <1>2 DEF JobRow
<1> HIDE DEF row
<1> QED
  BY <1>1, <1>3, FaultType, HiddenKeeps, EndKeeps

-----------------------------------------------------------------------------
LEMMA InitInv == Init => Inv
<1> SUFFICES ASSUME Init PROVE Inv
  OBVIOUS
<1>1. None \notin Jobs /\ Promotions \subseteq Jobs /\ Thresholds \subseteq Jobs
  BY PushAssumption DEF Jobs
<1>2. TypeOK
  BY PushAssumption DEF Init, TypeOK, Idle
<1>3. CheckInv
  BY <1>1 DEF Init, CheckInv, Before
<1>4. QueueInv
  BY <1>1 DEF Init, QueueInv
<1>5. RunInv
  BY <1>1 DEF Init, RunInv, Idle
<1> QED
  BY <1>2, <1>3, <1>4, <1>5 DEF Inv

LEMMA NextInv == Inv /\ [Next]_vars => Inv'
<1> SUFFICES ASSUME Inv, [Next]_vars PROVE Inv'
  OBVIOUS
<1>1. CASE UNCHANGED vars
  BY <1>1 DEF vars, Inv, TypeOK, CheckInv, QueueInv, RunInv, Idle
<1>2. CASE Next
  BY <1>2, PromotionKeeps, StartKeeps, SendKeeps, FinishKeeps, CrashKeeps DEF Next, Dispatch
<1> QED
  BY <1>1, <1>2

(* Every state of the promotions, jobs and attempts has its type.          *)
THEOREM TypeCorrect == Spec => []TypeOK
<1>1. Inv => TypeOK
  BY DEF Inv
<1> QED
  BY <1>1, InitInv, NextInv, PTL DEF Spec

(* enqueueNotification, checkBudgetAlerts: whatever promotions and crashes *)
(* interleave, no promotion's push and no threshold's alert is queued more *)
(* than once, whether or not there were faults.                            *)
THEOREM QueuedOnce == Spec => [](\A j \in Jobs : queued[j] <= 1)
<1>1. Inv => \A j \in Jobs : queued[j] <= 1
  BY DEF Inv, QueueInv
<1> QED
  BY <1>1, InitInv, NextInv, PTL DEF Spec

(* NotificationDispatchProcessor: over all attempts of a job, a device is  *)
(* pushed to again only if the push was not recorded.                      *)
THEOREM PushedOnceAlways == Spec => PushedOnce
<1> DEFINE Once == \A d \in run'.new \ run.new : d \notin pushed[run.job]
<1>1. Inv /\ [Next]_vars => [Once]_vars
  <2> SUFFICES ASSUME Inv, Next PROVE Once
    BY DEF vars
  <2>1. CASE \E p \in Promotions : Promote(p) \/ PromotionCrash(p)
    BY <2>1 DEF Promote, PromotionCrash, Commit, Notify, ReadUsage, Mark, Announce
  <2>2. ASSUME NEW j \in Jobs, Start(j) PROVE Once
    BY <2>2 DEF Start
  <2>3. ASSUME NEW d \in Devices, Send(d) PROVE Once
    <3>1. run.job \in Jobs
      BY <2>3 DEF Send, Inv, TypeOK, RunInv, Idle
    <3>2. d \notin pushed[run.job]
      BY <2>3, <3>1 DEF Send, Inv, RunInv
    <3>3. run'.new \subseteq run.new \cup {d}
      BY <2>3 DEF Send, Accepted, Refused, Unavailable, Unrecorded, Inv, TypeOK
    <3> QED
      BY <3>2, <3>3
  <2>4. CASE Finish \/ WorkerCrash
    <3>1. run' = Idle
      BY <2>4, Zenon DEF Finish, WorkerCrash
    <3>2. Idle.new = {}
      BY DEF Idle
    <3> QED
      BY <3>1, <3>2
  <2> QED
    BY <2>1, <2>2, <2>3, <2>4 DEF Next, Dispatch
<1> QED
  BY <1>1, InitInv, NextInv, PTL DEF Spec, PushedOnce

(* NotificationDispatchProcessor: a job completes only when no device of   *)
(* the attempt asked for another try.                                      *)
THEOREM NothingOwedAlways == Spec => NothingOwed
<1> DEFINE Paid == \A j \in Jobs : job[j].state = "active" /\ job'[j].state = "completed"
                                     => owed = {}
<1>1. Inv /\ [Next]_vars => [Paid]_vars
  <2> SUFFICES ASSUME Inv, Next, NEW j \in Jobs, job[j].state = "active",
                      job'[j].state = "completed"
               PROVE  owed = {}
    BY DEF vars
  <2>t. job \in [Jobs -> JobRow] /\ run.job = j /\ RunInv /\ TypeOK
    BY DEF Inv, TypeOK, RunInv, JobRow
  <2>1. CASE \E p \in Promotions : Promote(p) \/ PromotionCrash(p)
    <3>1. UNCHANGED job \/ \E i \in Jobs : job' = [job EXCEPT ![i] =
                                             [state |-> "waiting", tries |-> 0, sent |-> {}]]
      <4>1. ASSUME NEW i \in Jobs, AddOrLose(i)
            PROVE  UNCHANGED job \/ job' = [job EXCEPT ![i] =
                                       [state |-> "waiting", tries |-> 0, sent |-> {}]]
        BY <4>1 DEF AddOrLose, Add
      <4>2. ASSUME NEW p \in Promotions, Announce(p) PROVE check[p].send \in Jobs
        BY <4>2 DEF Announce, At, Inv, CheckInv, TypeOK, Jobs
      <4> QED
        BY <2>1, <4>1, <4>2
           DEF Promote, PromotionCrash, Commit, Notify, ReadUsage, Mark, Announce, Jobs
    <3> QED
      BY <2>t, <3>1
  <2>2. ASSUME NEW i \in Jobs, Start(i) PROVE owed = {}
    <3>1. run = Idle
      BY <2>2 DEF Start
    <3> QED
      BY <2>t, <3>1 DEF RunInv
  <2>3. CASE \E d \in Devices : Send(d)
    BY <2>3 DEF Send
  <2>4. CASE Finish
    <3>1. job[j] \in JobRow /\ job[j].tries < Attempts /\ run.new \subseteq Devices
      BY <2>t DEF RunInv, TypeOK
    <3>2. Saved(job[j]) \in JobRow /\ Saved(job[j]).tries < Attempts
      BY <3>1 DEF Saved, JobRow
    <3>3. run.retry \in BOOLEAN
      BY <2>t DEF TypeOK
    <3>4. job'[j] = Ended(Saved(job[j]), run.retry) \/ job'[j] = Ended(job[j], TRUE)
      BY <2>t, <2>4 DEF Finish
    <3>5. ~run.retry
      BY <3>1, <3>2, <3>3, <3>4, EndedType
    <3> QED
      BY <2>t, <3>5 DEF RunInv
  <2>5. CASE WorkerCrash
    BY <2>t, <2>5 DEF WorkerCrash, JobRow
  <2> QED
    BY <2>1, <2>2, <2>3, <2>4, <2>5 DEF Next, Dispatch
<1> QED
  BY <1>1, InitInv, NextInv, PTL DEF Spec, NothingOwed

-----------------------------------------------------------------------------
(* The month's usage.  What holds of every finite set of promotions holds  *)
(* because a smallest one without it would be larger than itself: that is  *)
(* all of induction that the sum needs.                                    *)
Spendings == FiniteSubsetsOf(Promotions)

LEMMA Smallest ==
  ASSUME NEW Bad \in SUBSET Spendings, Bad # {}
  PROVE  \E S \in Bad : \A U \in Bad : U \subseteq S => U = S
<1>1. PICK S \in Bad : \A U \in Bad : ~(<<U, S>> \in StrictSubsetOrdering(Promotions))
  BY FS_StrictSubsetOrderingWellFounded, WFMin DEF Spendings
<1>2. \A U \in Bad : U \in SUBSET Promotions
  BY DEF Spendings, FiniteSubsetsOf
<1> QED
  BY <1>1, <1>2 DEF StrictSubsetOrdering

LEMMA SpendingsSubset ==
  ASSUME NEW S \in Spendings
  PROVE  /\ S \subseteq Promotions
         /\ \A U \in SUBSET S : U \in Spendings
BY FS_Subset DEF Spendings, FiniteSubsetsOf

First(S) == CHOOSE p \in S : TRUE
IsSum(f, S) ==
  f = [s \in SUBSET S |-> IF s = {} THEN 0 ELSE Share[First(s)] + f[s \ {First(s)}]]

LEMMA Firsts == \A S : S # {} => First(S) \in S
BY DEF First

AddsUp(f, U) == f[U] = IF U = {} THEN 0 ELSE Share[First(U)] + f[U \ {First(U)}]

LEMMA SumAt == \A S, f : IsSum(f, S) => \A U \in SUBSET S : AddsUp(f, U)
<1> SUFFICES ASSUME NEW S, NEW f, IsSum(f, S), NEW U \in SUBSET S PROVE AddsUp(f, U)
  BY Zenon
<1> DEFINE v(s) == IF s = {} THEN 0 ELSE Share[First(s)] + f[s \ {First(s)}]
<1>1. f = [s \in SUBSET S |-> v(s)]
  BY Zenon DEF IsSum
<1> HIDE DEF v
<1>2. f[U] = v(U)
  BY <1>1, Zenon
<1> QED
  BY <1>2 DEF v, AddsUp

(* Two sums agree on every set they both add up. *)
LEMMA SumIsUnique ==
  ASSUME NEW S \in Spendings, NEW T \in Spendings, NEW f, NEW g, IsSum(f, S), IsSum(g, T),
         NEW W, W \in SUBSET S, W \in SUBSET T
  PROVE  f[W] = g[W]
<1> DEFINE Bad == {U \in SUBSET (S \cap T) : f[U] # g[U]}
<1>1. SUFFICES ASSUME W \in Bad PROVE FALSE
  OBVIOUS
<1>2. Bad \in SUBSET Spendings
  BY SpendingsSubset
<1>3. PICK U \in Bad : \A V \in Bad : V \subseteq U => V = U
  <2> HIDE DEF Bad
  <2> QED
    BY <1>1, <1>2, Smallest
<1>4. /\ f[U] = IF U = {} THEN 0 ELSE Share[First(U)] + f[U \ {First(U)}]
      /\ g[U] = IF U = {} THEN 0 ELSE Share[First(U)] + g[U \ {First(U)}]
  <2>1. U \in SUBSET S /\ U \in SUBSET T
    OBVIOUS
  <2> HIDE DEF Bad
  <2>2. AddsUp(f, U) /\ AddsUp(g, U)
    BY <2>1, SumAt, Zenon
  <2> QED
    BY <2>2 DEF AddsUp
<1>5. U # {}
  BY <1>4
<1>6. U \ {First(U)} \notin Bad
  BY <1>3, <1>5, Firsts
<1> QED
  BY <1>4, <1>5, <1>6

HasSum(f, S) == f \in [SUBSET S -> Nat] /\ IsSum(f, S)
Adder(S) == CHOOSE f : HasSum(f, S)
Total(S) == Adder(S)[S]

LEMMA SumExists == \A S \in Spendings : \E f : HasSum(f, S)
<1> DEFINE Bad == {S \in Spendings : ~\E f : HasSum(f, S)}
<1>1. SUFFICES ASSUME Bad # {} PROVE FALSE
  OBVIOUS
<1>2. PICK S \in Bad : \A V \in Bad : V \subseteq S => V = S
  <2>1. Bad \in SUBSET Spendings
    OBVIOUS
  <2> HIDE DEF Bad
  <2> QED
    BY <1>1, <2>1, Smallest
<1>3. \A U \in SUBSET S : U # S => U \in Spendings /\ HasSum(Adder(U), U)
  BY <1>2, SpendingsSubset DEF Adder
<1> DEFINE v(s) == IF s = S
                   THEN IF S = {} THEN 0 ELSE Share[First(S)] + Total(S \ {First(S)})
                   ELSE Total(s)
           h == [s \in SUBSET S |-> v(s)]
<1>4. \A U \in SUBSET S : U # S => Total(U) \in Nat
  BY <1>3 DEF HasSum, Total
<1>5. \A U \in SUBSET S : U # {} =>
        U \ {First(U)} \in SUBSET S /\ U \ {First(U)} # S /\ Share[First(U)] \in Nat
  BY Firsts, SpendingsSubset, PushAssumption
<1>6. h \in [SUBSET S -> Nat]
  BY <1>4, <1>5
<1>7. ASSUME NEW U \in SUBSET S
      PROVE  h[U] = IF U = {} THEN 0 ELSE Share[First(U)] + h[U \ {First(U)}]
  <2>1. CASE U = S
    BY <1>5, <2>1
  <2>2. CASE U # S
    <3>1. Adder(U)[U] = IF U = {} THEN 0 ELSE Share[First(U)] + Adder(U)[U \ {First(U)}]
      <4>1. IsSum(Adder(U), U) /\ U \in SUBSET U
        BY <1>3, <2>2 DEF HasSum
      <4> HIDE DEF v, h
      <4>2. AddsUp(Adder(U), U)
        BY <4>1, SumAt, Zenon
      <4> QED
        BY <4>2 DEF AddsUp
    <3>2. U # {} => Adder(U)[U \ {First(U)}] = Total(U \ {First(U)})
      <4> DEFINE W == U \ {First(U)}
      <4>1. SUFFICES ASSUME U # {} PROVE Adder(U)[W] = Adder(W)[W]
        BY DEF Total
      <4>2. W \in SUBSET S /\ W # S /\ W \in SUBSET U /\ W \in SUBSET W
        BY <1>5, <4>1
      <4>3. /\ U \in Spendings /\ W \in Spendings /\ IsSum(Adder(U), U) /\ IsSum(Adder(W), W)
        BY <1>3, <2>2, <4>2 DEF HasSum
      <4> HIDE DEF W
      <4> QED
        BY <4>2, <4>3, SumIsUnique
    <3>3. h[U] = Adder(U)[U]
      BY <2>2 DEF Total
    <3> QED
      BY <1>5, <3>1, <3>2, <3>3
  <2> QED
    BY <2>1, <2>2
<1> HIDE DEF v
<1>8. IsSum(h, S)
  BY <1>7 DEF IsSum
<1> HIDE DEF h
<1> QED
  BY <1>2, <1>6, <1>8 DEF HasSum

LEMMA TotalIs ==
  ASSUME NEW S \in Spendings
  PROVE  /\ Total(S) \in Nat
         /\ Total(S) = IF S = {} THEN 0 ELSE Share[First(S)] + Total(S \ {First(S)})
<1> DEFINE W == S \ {First(S)}
<1>1. HasSum(Adder(S), S) /\ HasSum(Adder(W), W) /\ W \in Spendings
  BY SumExists, SpendingsSubset DEF Adder
<1>2. Adder(S)[W] = Adder(W)[W]
  <2> HIDE DEF W
  <2>1. W \in SUBSET S /\ W \in SUBSET W /\ IsSum(Adder(S), S) /\ IsSum(Adder(W), W)
    BY <1>1 DEF W, HasSum
  <2> QED
    BY <1>1, <2>1, SumIsUnique
<1>3. Adder(S)[S] \in Nat
  BY <1>1 DEF HasSum
<1>4. Adder(S)[S] = IF S = {} THEN 0 ELSE Share[First(S)] + Adder(S)[W]
  <2>1. IsSum(Adder(S), S) /\ S \in SUBSET S
    BY <1>1 DEF HasSum
  <2> HIDE DEF W
  <2>2. AddsUp(Adder(S), S)
    BY <2>1, SumAt, Zenon
  <2> QED
    BY <2>2 DEF W, AddsUp
<1> QED
  BY <1>2, <1>3, <1>4 DEF Total

(* It does not matter which promotion is taken out first.                  *)
LEMMA TotalOfOneMore ==
  \A S \in Spendings : \A p \in S : Total(S) = Share[p] + Total(S \ {p})
<1> DEFINE Bad == {S \in Spendings : \E p \in S : Total(S) # Share[p] + Total(S \ {p})}
<1>1. SUFFICES ASSUME Bad # {} PROVE FALSE
  OBVIOUS
<1>2. PICK S \in Bad : \A V \in Bad : V \subseteq S => V = S
  <2>1. Bad \in SUBSET Spendings
    OBVIOUS
  <2> HIDE DEF Bad
  <2> QED
    BY <1>1, <2>1, Smallest
<1>3. PICK p \in S : Total(S) # Share[p] + Total(S \ {p})
  OBVIOUS
<1> DEFINE q == First(S)
           A == S \ {q}
           B == S \ {p}
           C == S \ {p, q}
<1>4. q \in S /\ Total(S) = Share[q] + Total(A)
  BY <1>3, TotalIs, Firsts
<1>5. p # q
  BY <1>3, <1>4
<1>6. A \in Spendings /\ B \in Spendings /\ C \in Spendings /\ A \notin Bad /\ B \notin Bad
  BY <1>2, <1>3, <1>4, SpendingsSubset
<1>7. Total(A) = Share[p] + Total(C)
  <2>1. p \in A /\ A \ {p} = C
    BY <1>3, <1>5
  <2> QED
    BY <1>6, <2>1
<1>8. Total(B) = Share[q] + Total(C)
  <2>1. q \in B /\ B \ {q} = C
    BY <1>4, <1>5
  <2> QED
    BY <1>6, <2>1
<1>9. Share[p] \in Nat /\ Share[q] \in Nat /\ Total(C) \in Nat
  <2>1. S \subseteq Promotions /\ p \in S /\ q \in S
    BY <1>3, <1>4, SpendingsSubset
  <2> HIDE DEF q, C
  <2> QED
    BY <1>6, <2>1, TotalIs, PushAssumption
<1> HIDE DEF A, B, C, q
<1>10. Total(S) # Share[p] + Total(B)
  BY <1>3 DEF B
<1> QED
  BY <1>4, <1>7, <1>8, <1>9, <1>10

SharesOf(S) == MapThenSumSet(LAMBDA p : Share[p], S)

LEMMA SharesAreTotal == \A S \in Spendings : SharesOf(S) = Total(S)
<1> SUFFICES ASSUME NEW S \in Spendings PROVE SharesOf(S) = Total(S)
  OBVIOUS
<1> DEFINE g == CHOOSE h : IsSum(h, S)
<1>1. IsSum(g, S) /\ IsSum(Adder(S), S)
  BY SumExists DEF HasSum, Adder
<1>2. SharesOf(S) = g[S]
  BY DEF SharesOf, MapThenSumSet, MapThenFoldSet, IsSum, First
<1> HIDE DEF g
<1>3. g[S] = Adder(S)[S]
  <2>1. S \in SUBSET S
    OBVIOUS
  <2> QED
    BY <1>1, <2>1, SumIsUnique
<1> QED
  BY <1>2, <1>3 DEF Total

LEMMA UsageGrows ==
  ASSUME spent \subseteq Promotions, NEW p \in Promotions, spent' = spent \cup {p}
  PROVE  Usage \in Nat /\ Usage' \in Nat /\ Usage <= Usage'
<1>1. spent \in Spendings /\ spent' \in Spendings
  BY PushAssumption, FS_Subset DEF Spendings, FiniteSubsetsOf
<1>2. Usage = SharesOf(spent) /\ Usage' = SharesOf(spent')
  BY DEF Usage, SharesOf, MapThenSumSet, MapThenFoldSet
<1>3. Usage = Total(spent) /\ Usage' = Total(spent')
  BY <1>1, <1>2, SharesAreTotal
<1>4. Share[p] \in Nat /\ Total(spent) \in Nat
  BY <1>1, TotalIs, PushAssumption
<1>5. Total(spent') = Total(spent) \/ Total(spent') = Share[p] + Total(spent)
  <2>1. CASE p \in spent
    <3>1. spent' = spent
      BY <2>1
    <3> QED
      BY <3>1
  <2>2. CASE p \notin spent
    <3>1. p \in spent' /\ spent' \ {p} = spent
      BY <2>2
    <3> QED
      BY <1>1, <3>1, TotalOfOneMore
  <2> QED
    BY <2>1, <2>2
<1> QED
  BY <1>3, <1>4, <1>5

-----------------------------------------------------------------------------
(* Short of faults, a threshold the spending has crossed is marked, or a   *)
(* promotion has yet to look or holds it as one to try; and the highest    *)
(* crossed one, once marked, is queued or about to be.  A promotion tries  *)
(* its thresholds from the highest, so it announces one above all it has   *)
(* left.                                                                   *)
OpenFor(t) == \E p \in Promotions : check[p].pc \in {"notify", "read"} \/ t \in check[p].left
Announced(t) == queued[t] = 1 \/ \E p \in Promotions : check[p].send = t
CoverInv ==
  /\ marked \subseteq Crossed
  /\ \A p \in Promotions :
       LET c == check[p] IN
       /\ c.left \subseteq Crossed
       /\ c.pc # "mark" => c.left = {}
       /\ c.send # None => \A t \in c.left : c.send > t
  /\ faults = 0 => \A t \in Crossed :
       /\ t \in marked \/ OpenFor(t)
       /\ t \in marked /\ (\A u \in Crossed : u <= t) => Announced(t)

LEMMA NoFault ==
  ASSUME Inv, NEW j \in Jobs, AddOrLose(j), faults' = 0
  PROVE  faults = 0 /\ queued' = [queued EXCEPT ![j] = queued[j] + 1]
BY DEF Inv, TypeOK, AddOrLose, Add, Fault

LEMMA CommitCovers ==
  ASSUME Inv, CoverInv, NEW p \in Promotions, Commit(p)
  PROVE  CoverInv'
<1> DEFINE place == [check[p] EXCEPT !.pc = "notify"]
<1>1. /\ check[p].pc = "commit" /\ check' = [check EXCEPT ![p] = place]
      /\ spent' = spent \cup {p} /\ UNCHANGED <<marked, queued, faults>>
  BY DEF Commit, At, Goto, Inv, TypeOK
<1>2. place.pc = "notify" /\ place.left = check[p].left /\ place.send = check[p].send
  BY DEF Inv, TypeOK
<1> HIDE DEF place
<1>3. \A q \in Promotions : check'[q] = IF q = p THEN place ELSE check[q]
  BY <1>1 DEF Inv, TypeOK
<1>4. Crossed \subseteq Crossed' /\ Crossed' \subseteq Nat
  <2>1. spent \subseteq Promotions
    BY DEF Inv, TypeOK
  <2>2. Usage \in Nat /\ Usage' \in Nat /\ Usage <= Usage'
    BY <1>1, <2>1, UsageGrows
  <2>3. Thresholds \subseteq Nat
    BY PushAssumption
  <2>4. \A t \in Nat : Usage >= t => Usage' >= t
    BY <2>2
  <2> QED
    BY <2>3, <2>4 DEF Crossed
<1>5. check[p].left = {}
  BY <1>1 DEF CoverInv
<1>6. \A t : OpenFor(t)'
  BY <1>2, <1>3 DEF OpenFor
<1>7. \A t : Announced(t) => Announced(t)'
  BY <1>1, <1>2, <1>3 DEF Announced
<1> QED
  BY <1>1, <1>2, <1>3, <1>4, <1>5, <1>6, <1>7 DEF CoverInv

(* In the steps that follow nothing is spent.                              *)
LEMMA SpentStays ==
  ASSUME UNCHANGED spent
  PROVE  Crossed' = Crossed
<1>1. Usage' = Usage
  BY DEF Usage, MapThenSumSet, MapThenFoldSet
<1> QED
  BY <1>1 DEF Crossed

LEMMA NotifyCovers ==
  ASSUME Inv, CoverInv, NEW p \in Promotions, Notify(p)
  PROVE  CoverInv'
<1> DEFINE place == [check[p] EXCEPT !.pc = "read"]
<1>1. /\ check[p].pc = "notify" /\ check' = [check EXCEPT ![p] = place]
      /\ UNCHANGED <<marked, spent>> /\ AddOrLose(p)
  BY DEF Notify, At, Goto, Inv, TypeOK
<1>2. place.pc = "read" /\ place.left = check[p].left /\ place.send = check[p].send
  BY DEF Inv, TypeOK
<1> HIDE DEF place
<1>3. \A q \in Promotions : check'[q] = IF q = p THEN place ELSE check[q]
  BY <1>1 DEF Inv, TypeOK
<1>4. Crossed' = Crossed
  BY <1>1, SpentStays
<1>5. check[p].left = {}
  BY <1>1 DEF CoverInv
<1>6. faults' = 0 => faults = 0 /\ \A t \in Thresholds : queued'[t] = queued[t]
  BY <1>1, NoFault, PushAssumption DEF Jobs, Inv, TypeOK
<1>7. \A t : OpenFor(t) => OpenFor(t)'
  BY <1>2, <1>3 DEF OpenFor
<1>8. \A t \in Thresholds : faults' = 0 /\ Announced(t) => Announced(t)'
  BY <1>2, <1>3, <1>6 DEF Announced
<1>9. Crossed \subseteq Thresholds
  BY DEF Crossed
<1> QED
  BY <1>1, <1>2, <1>3, <1>4, <1>5, <1>6, <1>7, <1>8, <1>9 DEF CoverInv

LEMMA ReadCovers ==
  ASSUME Inv, CoverInv, NEW p \in Promotions, ReadUsage(p)
  PROVE  CoverInv'
<1> DEFINE place == IF Crossed = {} THEN Rest
                    ELSE [pc |-> "mark", left |-> Crossed, send |-> None]
<1>1. /\ check[p].pc = "read" /\ check' = [check EXCEPT ![p] = place]
      /\ UNCHANGED <<marked, spent, faults, queued>>
  BY DEF ReadUsage, At, End
<1>2. /\ place.left = Crossed /\ place.send = None
      /\ place.pc # "mark" => place.left = {}
  BY DEF Rest
<1> HIDE DEF place
<1>3. \A q \in Promotions : check'[q] = IF q = p THEN place ELSE check[q]
  BY <1>1 DEF Inv, TypeOK
<1>4. Crossed' = Crossed
  BY <1>1, SpentStays
<1>5. check[p].send = None /\ None \notin Thresholds
  BY <1>1, PushAssumption DEF Inv, CheckInv, Jobs
<1>6. \A t \in Crossed : OpenFor(t)'
  BY <1>2, <1>3 DEF OpenFor
<1>7. \A t \in Thresholds : Announced(t) => Announced(t)'
  BY <1>1, <1>3, <1>5 DEF Announced
<1>8. Crossed \subseteq Thresholds
  BY DEF Crossed
<1> QED
  BY <1>1, <1>2, <1>3, <1>4, <1>6, <1>7, <1>8 DEF CoverInv

LEMMA MarkCovers ==
  ASSUME Inv, CoverInv, NEW p \in Promotions, Mark(p)
  PROVE  CoverInv'
<1> DEFINE t == Max(check[p].left)
           rest == check[p].left \ {t}
           send == IF check[p].send = None /\ t \notin marked THEN t ELSE check[p].send
           place == IF rest = {} /\ send = None THEN Rest
                    ELSE [pc |-> IF rest = {} THEN "announce" ELSE "mark",
                          left |-> rest, send |-> send]
<1>1. /\ check[p].pc = "mark" /\ check' = [check EXCEPT ![p] = place]
      /\ marked' = marked \cup {t} /\ UNCHANGED <<spent, faults, queued>>
  BY DEF Mark, At, End
<1>2. /\ t \in check[p].left /\ \A u \in check[p].left : t >= u
      /\ check[p].left \subseteq Thresholds
  <2>1. check[p].left # {} /\ check[p].left \subseteq Thresholds
    BY <1>1 DEF Inv, TypeOK, CheckInv
  <2> QED
    BY <2>1, MaxIsMember
<1> HIDE DEF t
<1>3. place.left = rest /\ place.send = send /\ (place.pc # "mark" => place.left = {})
  BY DEF Rest
<1> HIDE DEF place
<1>4. \A q \in Promotions : check'[q] = IF q = p THEN place ELSE check[q]
  BY <1>1 DEF Inv, TypeOK
<1>5. Crossed' = Crossed
  BY <1>1, SpentStays
<1>6. /\ t \in Crossed /\ rest \subseteq Crossed
      /\ Crossed \subseteq Nat /\ Crossed \subseteq Thresholds
  BY <1>2, PushAssumption DEF CoverInv, Crossed
<1>7. send # None => \A u \in rest : send > u
  BY <1>2, <1>6 DEF CoverInv
<1>8. \A u \in Crossed : u \in marked \/ OpenFor(u) => u \in marked' \/ OpenFor(u)'
  BY <1>1, <1>3, <1>4 DEF OpenFor
<1>9. ASSUME faults = 0, NEW u \in Crossed, u \in marked', \A w \in Crossed : w <= u
      PROVE  Announced(u)'
  <2>1. CASE u \in marked
    <3>1. Announced(u)
      BY <1>9, <2>1 DEF CoverInv
    <3>2. u # None
      BY <1>6, PushAssumption DEF Jobs
    <3> QED
      BY <1>1, <1>3, <1>4, <3>1, <3>2 DEF Announced
  <2>2. CASE u \notin marked
    <3>1. u = t
      BY <1>1, <1>9, <2>2
    <3>2. check[p].send = None
      <4>1. SUFFICES ASSUME check[p].send # None PROVE FALSE
        OBVIOUS
      <4>2. check[p].send \in Crossed
        BY <4>1 DEF Inv, CheckInv, CoverInv
      <4>3. check[p].send > t
        BY <1>2, <4>1 DEF CoverInv
      <4> QED
        BY <1>6, <1>9, <3>1, <4>2, <4>3
    <3> QED
      BY <1>3, <1>4, <2>2, <3>1, <3>2 DEF Announced
  <2> QED
    BY <2>1, <2>2
<1> QED
  BY <1>1, <1>3, <1>4, <1>5, <1>6, <1>7, <1>8, <1>9 DEF CoverInv

LEMMA AnnounceCovers ==
  ASSUME Inv, CoverInv, NEW p \in Promotions, Announce(p)
  PROVE  CoverInv'
<1> DEFINE s == check[p].send
<1>1. /\ check[p].pc = "announce" /\ check' = [check EXCEPT ![p] = Rest]
      /\ AddOrLose(s) /\ UNCHANGED <<marked, spent>>
  BY DEF Announce, At, End
<1>2. s \in Thresholds /\ s \in Jobs /\ queued[s] = 0
  BY <1>1, PushAssumption DEF Inv, TypeOK, CheckInv, Jobs
<1> HIDE DEF s
<1>3. \A q \in Promotions : check'[q] = IF q = p THEN Rest ELSE check[q]
  BY <1>1 DEF Inv, TypeOK
<1>4. Crossed' = Crossed
  BY <1>1, SpentStays
<1>5. check[p].left = {}
  BY <1>1 DEF CoverInv
<1>6. faults' = 0 => /\ faults = 0
                     /\ \A t \in Thresholds : queued'[t] = IF t = s THEN 1 ELSE queued[t]
  BY <1>1, <1>2, NoFault DEF Inv, TypeOK, Jobs
<1>7. \A t : OpenFor(t) => OpenFor(t)'
  BY <1>1, <1>3, <1>5 DEF OpenFor
<1>8. \A t \in Thresholds : faults' = 0 /\ Announced(t) => Announced(t)'
  BY <1>3, <1>6 DEF Announced, s
<1>9. Crossed \subseteq Thresholds /\ Rest.left = {} /\ Rest.send = None
  BY DEF Crossed, Rest
<1> QED
  BY <1>1, <1>3, <1>4, <1>5, <1>6, <1>7, <1>8, <1>9 DEF CoverInv

LEMMA CrashCovers ==
  ASSUME Inv, CoverInv, NEW p \in Promotions, PromotionCrash(p)
  PROVE  CoverInv'
<1>1. /\ check' = [check EXCEPT ![p] = Rest] /\ faults' = faults + 1
      /\ UNCHANGED <<marked, spent>>
  BY DEF PromotionCrash, End, Fault
<1>2. Crossed' = Crossed /\ faults' # 0
  BY <1>1, SpentStays DEF Inv, TypeOK
<1>3. \A q \in Promotions : check'[q] = IF q = p THEN Rest ELSE check[q]
  BY <1>1 DEF Inv, TypeOK
<1>4. Rest.left = {} /\ Rest.send = None
  BY DEF Rest
<1> QED
  BY <1>1, <1>2, <1>3, <1>4 DEF CoverInv

LEMMA WorkerCovers ==
  ASSUME Inv, CoverInv, Dispatch \/ WorkerCrash \/ UNCHANGED vars
  PROVE  CoverInv'
<1>1. UNCHANGED <<spent, check, marked, queued>> /\ (faults' = 0 => faults = 0)
  <2>1. UNCHANGED faults \/ Fault
    BY DEF Dispatch, Start, Send, Accepted, Refused, Unavailable, Unrecorded, Finish,
           WorkerCrash, vars
  <2>2. UNCHANGED <<spent, check, marked, queued>>
    BY DEF Dispatch, Start, Send, Finish, WorkerCrash, vars, promotionVars
  <2>3. Fault => faults' # 0
    BY DEF Fault, Inv, TypeOK
  <2> QED
    BY <2>1, <2>2, <2>3
<1>2. Crossed' = Crossed
  BY <1>1, SpentStays
<1>3. \A t : (OpenFor(t)' <=> OpenFor(t)) /\ (Announced(t)' <=> Announced(t))
  BY <1>1 DEF OpenFor, Announced
<1> QED
  BY <1>1, <1>2, <1>3 DEF CoverInv

LEMMA CoverInit == Init => CoverInv
<1> SUFFICES ASSUME Init PROVE CoverInv
  OBVIOUS
<1>1. {} \in Spendings
  BY FS_EmptySet DEF Spendings, FiniteSubsetsOf
<1>2. Usage = 0
  <2>1. Usage = SharesOf({})
    BY DEF Usage, SharesOf, Init, MapThenSumSet, MapThenFoldSet
  <2> QED
    BY <1>1, <2>1, SharesAreTotal, TotalIs
<1>3. Crossed = {}
  <2>1. \A t \in Nat \ {0} : ~ (0 >= t)
    OBVIOUS
  <2>2. Thresholds \subseteq Nat \ {0}
    BY PushAssumption
  <2> QED
    BY <1>2, <2>1, <2>2 DEF Crossed
<1> QED
  BY <1>3 DEF Init, CoverInv

LEMMA CoverNext == Inv /\ CoverInv /\ [Next]_vars => CoverInv'
BY CommitCovers, NotifyCovers, ReadCovers, MarkCovers, AnnounceCovers, CrashCovers,
   WorkerCovers DEF Next, Promote

(* checkBudgetAlerts over every number of promotions side by side, and     *)
(* every way the highest-first inserts may interleave: nothing is queued   *)
(* twice, and without a fault the highest threshold that was crossed is    *)
(* announced.                                                              *)
THEOREM CrossingIsAnnouncedAlways == Spec => []CrossingIsAnnounced
<1>1. Inv /\ CoverInv => CrossingIsAnnounced
  <2> SUFFICES ASSUME Inv, CoverInv PROVE CrossingIsAnnounced
    OBVIOUS
  <2>1. \A j \in Jobs : queued[j] <= 1
    BY DEF Inv, QueueInv
  <2>2. ASSUME Settled, faults = 0, Crossed # {} PROVE queued[Max(Crossed)] = 1
    <3> DEFINE t == Max(Crossed)
    <3>1. t \in Crossed /\ \A u \in Crossed : t >= u
      BY <2>2, MaxIsMember DEF Crossed
    <3>2. Crossed \subseteq Thresholds /\ Thresholds \subseteq Nat /\ None \notin Thresholds
      BY PushAssumption DEF Crossed, Jobs
    <3>3. \A p \in Promotions : check[p].pc = "done" /\ check[p].left = {} /\ check[p].send = None
      BY <2>2 DEF Settled, At, CoverInv, Inv, CheckInv
    <3> HIDE DEF t
    <3>4. t \in marked
      BY <2>2, <3>1, <3>3 DEF CoverInv, OpenFor
    <3>5. Announced(t)
      BY <2>2, <3>1, <3>2, <3>4 DEF CoverInv
    <3>6. queued[t] = 1
      BY <3>1, <3>2, <3>3, <3>5 DEF Announced
    <3> QED
      BY <3>6 DEF t
  <2> QED
    BY <2>1, <2>2 DEF CrossingIsAnnounced
<1> QED
  BY <1>1, InitInv, NextInv, CoverInit, CoverNext, PTL DEF Spec
=============================================================================
