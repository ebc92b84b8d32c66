SPECIFICATION Spec
CONSTANTS
  r1 = r1
  r2 = r2
  r3 = r3
  Requests <- MCRequests
  Async <- MCAsync
  Interval = 2
  Burst = 2
  Second = 2
  MaxAttempts = 2
  InitialBackoff = 1
  MaxBackoff = 2
INVARIANTS
  TypeOK
  RetryWaitsOutBarrier
  DebtIsSleptFor
  GivesUpInTime
PROPERTIES
  EveryCallEnds
