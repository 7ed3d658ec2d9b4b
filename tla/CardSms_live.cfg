SPECIFICATION FairSpec
CONSTANTS
  e1 = e1
  e2 = e2
  s1 = s1
  s2 = s2
  sched = sched
  Events = {e1, e2}
  Slots = {s1}
  Scheduler = sched
  Reading <- Sure
  Twins <- NoTwins
  Unlinked = {e2}
  Layout = {}
  Nothing = Nothing
  MaxRuns = 1
  MaxFences = 2
  MaxDays = 3
  Lookback = 2
CHECK_DEADLOCK FALSE

PROPERTY StalledIsSeen
PROPERTY FenceLiftsForGood
