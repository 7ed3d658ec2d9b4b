SPECIFICATION FairSpec
CONSTANTS
  d1 = d1
  d2 = d2
  e1 = e1
  e2 = e2
  u1 = u1
  u2 = u2
  l1 = l1
  l2 = l2
  None = None
  Datasets = {d1}
  External = {e1}
  Labels = {l1, l2}
  Users = {u1}
  MaxRevision = 3
  MaxRuns = 2
  MaxCrashes = 1
CHECK_DEADLOCK FALSE
INVARIANT SucceededRunIsLoadable
INVARIANT OneRunPerDataset
PROPERTY TrainingEnds
