SPECIFICATION FairSpec
CONSTANTS
  m1 = m1
  m2 = m2
  t1 = t1
  t2 = t2
  s1 = s1
  s2 = s2
  v1 = v1
  Messages = {m1, m2}
  Texts = {t1, t2}
  Blank = Blank
  Sources = {s1, s2}
  Withdrawable = {}
  Nothing = Nothing
  Bundles <- Shrinking
  Consumers = {"graph"}
  Reviewers = {}
  MaxStamp = 1
  MaxJobs = 2
  MaxMemories = 0
  MaxAttempts = 2
  MaxFaults = 1
CHECK_DEADLOCK FALSE
INVARIANT IndexFollowsMessages
INVARIANT DeletedTextIsErased
INVARIANT MentionsFollowText
PROPERTY SearchCatchesUp
