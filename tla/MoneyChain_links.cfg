SPECIFICATION Spec
CONSTANTS
  s1 = s1
  s2 = s2
  s3 = s3
  Free = Free
  Absent = Absent
  Keep = Keep
  Sessions = {s1, s2, s3}
  Approvals = {1, 3}
  Cancellations = {2, 4}
  Rate <- MCRate
  Div = 10
  MaxSafe = 4
  Identity <- MCIdentityAll
  House <- MCHouse
  Commands <- LinkCommands
  MaxCommands = 6
CHECK_DEADLOCK FALSE
SYMMETRY Symmetry
INVARIANT TypeOK
INVARIANT NoLockCycle
PROPERTY ImplementsLedger
