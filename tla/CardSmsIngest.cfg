SPECIFICATION Spec
CONSTANTS
  r1 = r1
  r2 = r2
  r3 = r3
  dated = dated
  plain = plain
  None = None
  Posts = {r1, r2, r3}
  Messages <- MCMessages
  Dated = {dated}
  DedupeWindow = 2
  FingerprintWindow = 3
  MaxTime = 3
  MaxFaults = 1
CHECK_DEADLOCK FALSE
SYMMETRY Interchangeable
INVARIANT CallerKeysAreKept
INVARIANT RetriesAreFolded
INVARIANT NothingVanishes
PROPERTY ImplementsInbox
