SPECIFICATION Spec
CONSTANTS
  t1 = t1
  t2 = t2
  Threads <- MCThreads
  Program <- MCChangeProgram
  InitialRate <- MCTight
  Rates <- MCRates
  RetryAfters <- MCNoRetryAfters
  Minute = 6
  Second = 2
  MaxCalls = 4
  MaxTime = 4
CHECK_DEADLOCK FALSE
INVARIANTS
  RateChangeBounded
