SPECIFICATION FairSpec
CONSTANTS
  s1 = s1
  s2 = s2
  s3 = s3
  Free = Free
  Absent = Absent
  Keep = Keep
  Sessions = {s1, s2}
  Approvals = {1, 3}
  Cancellations = {2, 4}
  Rate <- MCRate
  Div = 10
  MaxSafe = 6
  Identity <- MCIdentityAll
  House <- MCHouse
  Commands <- ForeignAndReview
  MaxCommands = 4
CHECK_DEADLOCK FALSE
INVARIANT ChainBalanced LinksSound UnlinkedAwaitsReview
PROPERTY EveryCommandEnds
