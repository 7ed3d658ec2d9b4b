SPECIFICATION Spec
CONSTANTS
  m1 = m1
  m2 = m2
  t1 = t1
  t2 = t2
  s1 = s1
  s2 = s2
  v1 = v1
  Messages = {m1}
  Texts = {t1, t2}
  Blank = Blank
  Sources = {s1, s2}
  Withdrawable = {s1}
  Nothing = Nothing
  Bundles <- Differing
  Consumers = {"memory"}
  Reviewers = {v1}
  MaxStamp = 0
  MaxJobs = 2
  MaxMemories = 1
  MaxAttempts = 2
  MaxFaults = 1
CHECK_DEADLOCK FALSE
INVARIANT MemoryFollowsText
INVARIANT ErasedStaysErased
