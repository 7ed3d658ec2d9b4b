SPECIFICATION Spec
CONSTANTS
  d1 = d1
  d2 = d2
  e1 = e1
  e2 = e2
  u1 = u1
  u2 = u2
  l1 = l1
  l2 = l2
  None = None
  Datasets = {d1, d2}
  External = {e1, e2}
  Labels = {l1, l2}
  Users = {u1}
  MaxRevision = 3
  MaxRuns = 0
  MaxCrashes = 0
CHECK_DEADLOCK FALSE
SYMMETRY Interchangeable
INVARIANT AliasFollowsEvidence
INVARIANT CanaryWatchesAlias
INVARIANT PolicyFollowsAlias
INVARIANT SnapshotsFollowLabels
