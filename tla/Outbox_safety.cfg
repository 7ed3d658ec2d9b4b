SPECIFICATION FairSpec
CONSTANTS
  w1 = w1
  w2 = w2
  Workers = {w1, w2}
  Nobody = Nobody
  Gone = Gone
  Events = {1, 2}
  Invalid = {2}
  BatchSize = 2
  MaxAttempts = 2
  Retain = 2
  MaxFaults = 2
  MaxReprocess = 1
CHECK_DEADLOCK FALSE
INVARIANT TypeOK PublishedWasHanded OneVerdict OwnerIsCurrent
PROPERTY PublishedIsFinal
PROPERTY EveryEventSettles
