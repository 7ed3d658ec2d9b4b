SPECIFICATION FairSpec
CONSTANTS
  p1 = p1
  p2 = p2
  None = None
  Promotions = {p1, p2}
  Share <- TwoPayments
  Thresholds = {80, 100}
  Devices = {d1, d2}
  Attempts = 2
  MaxFaults = 1
INVARIANT CrossingIsAnnounced
PROPERTY PushedOnce
PROPERTY NothingOwed
PROPERTY QueueDrains
CHECK_DEADLOCK FALSE
