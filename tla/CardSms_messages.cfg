SPECIFICATION Spec
CONSTANTS
  e1 = e1
  e2 = e2
  s1 = s1
  s2 = s2
  sched = sched
  Events = {e1, e2}
  Slots = {s1, s2}
  Scheduler = sched
  Reading <- Releases
  Twins <- PairOfTwins
  Unlinked = {}
  Layout = {e1, e2}
  Nothing = Nothing
  MaxRuns = 2
  MaxFences = 0
  MaxDays = 0
  Lookback = 1
CHECK_DEADLOCK FALSE
SYMMETRY Symmetry
INVARIANT TransactionIsFounded
INVARIANT DuplicateIsFlagged
INVARIANT PushOnlyOnArrival
PROPERTY VerdictIsFinal
