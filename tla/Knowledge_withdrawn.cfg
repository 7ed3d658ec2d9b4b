SPECIFICATION Spec
CONSTANTS
  m1 = m1
  m2 = m2
  t1 = t1
  t2 = t2
  s1 = s1
  s2 = s2
  v1 = v1
  Messages = {m1}
  Texts = {t1}
  Blank = Blank
  Sources = {s1}
  Withdrawable = {s1}
  Nothing = Nothing
  Bundles <- OneExport
  Consumers = {}
  Reviewers = {}
  MaxStamp = 1
  MaxJobs = 2
  MaxMemories = 0
  MaxAttempts = 2
  MaxFaults = 0
CHECK_DEADLOCK FALSE
INVARIANT WithdrawnSourceIsForgotten
